---- MODULE Spec2Model ----
(***************************************************************************)
(* Hevy-Insights: the per-exercise aggregation pass of the Exercises view  *)
(* (the computed `exercises`) and its trend classifier                     *)
(* analyzeStrengthProgress.                                                *)
(*                                                                         *)
(* Units.  JavaScript numbers are modelled as exact rationals carried as   *)
(* integers:                                                               *)
(*   weight      tenths of a kilogram    (100 kg = 1000)                   *)
(*   distance    tenths of a kilometre   (3.9 km = 39)                     *)
(*   duration    seconds                                                   *)
(*   time        hours                   (Date.now(), Date.getTime())      *)
(* A mean sum/n is never divided out: two means are compared by cross      *)
(* multiplication, so no rounding enters the comparisons.                  *)
(*                                                                         *)
(* A day key "YYYY-MM-DD" is modelled as the number of that calendar day;  *)
(* the string order of the keys is the order of these numbers, and         *)
(* new Date(key).getTime() is the day's number times DayLength.            *)
(***************************************************************************)
EXTENDS Integers, Sequences, FiniteSets, TLC

VARIABLES
    title,                      \* entry.title: the localized title, a sequence of characters
    exercise_type,              \* entry.exercise_type: the API's type tag, or "null"
    sets,                       \* entry.sets: the sets pushed by the grouping loop
    plateauDetectionSessions,   \* store.plateauDetectionSessions (N)
    now,                        \* Date.now() as read by the analysis, -1 before it ran
    exerciseType,               \* ex.exerciseType: the detected kind
    byDay,                      \* ex.byDay: day key -> DayAggregate
    strengthInsight,            \* ex.strengthInsight
    pc,                         \* "group": snapshot being grouped, "done": record derived
    language,                   \* localStorage "language"
    allWorkouts,                \* allWorkouts.value: the sessions the store holds, in its order
    timezoneOffset,             \* the local time zone of the browser: minutes east of UTC
    exercises,                  \* exercises.value: id -> ExerciseRecord, as last computed
    store,                      \* the state of the Pinia store hevyCache
    calls,                      \* the fetchWorkouts calls: where each stands, and its locals
    clock,                      \* Date.now(), in minutes
    backend,                    \* the workouts the backend serves
    localStorage,               \* hevy_api_key and hevy_access_token: present or not
    loggedOut,                  \* history: logout() has been called
    router                      \* the current route and the navigation under way

vars == <<title, exercise_type, sets, plateauDetectionSessions, now,
          exerciseType, byDay, strengthInsight, pc, language, allWorkouts, timezoneOffset,
          exercises, store, calls, clock, backend, localStorage, loggedOut, router>>

\* the state of the whole pass, untouched by the steps on the single record
passVars == <<language, allWorkouts, timezoneOffset, exercises>>

\* the single record, untouched by the steps of the whole pass
recordVars == <<title, exercise_type, sets, exerciseType, byDay, strengthInsight>>

\* the store, its callers, the backend and the router, untouched by the pass
appVars == <<store, calls, clock, backend, localStorage, loggedOut, router>>

\* the record and the pass, untouched by the store and the router
analysisVars == <<title, exercise_type, sets, plateauDetectionSessions, now,
                  exerciseType, byDay, strengthInsight, pc, language, allWorkouts,
                  timezoneOffset, exercises>>

----------------------------------------------------------------------------
(* Bounds of the model *)

MaxDay == 5          \* day keys 1..MaxDay
MaxN == 5            \* plateauDetectionSessions ranges over 1..MaxN
MaxFoldSets == 3     \* sets of one exercise in the day-fold specification
MaxFoldDay == 2      \* day keys 1..MaxFoldDay in the day-fold specification
MaxWorkouts == 2     \* sessions in the store in the grouping specification
MaxDetectSets == 7   \* sets of the exercise in the classification specification
MaxTopSets == 4      \* sets of the exercise in the top-set specifications
MaxPrSessions == 3   \* sessions in the PR specification
MaxCalls == 2        \* fetchWorkouts calls in the store specification
MaxClock == 8        \* minutes the clock of the store specification runs

(* Program constants, in the units above *)

DayLength == 24              \* 1000 * 60 * 60 * 24 ms
HourLength == 60             \* minutes of an hour: the unit of start_time
InactiveDays == 60           \* daysSinceLastWorkout > 60
DefaultSessions == 5         \* localStorage default "5"
PlateauWeightRange == 5      \* weightRange <= 0.5
PlateauRepsRange == 1        \* repsRange <= 1
GainWeight == 20             \* effectiveWeightChange > 2, < -2
GainReps == 2                \* repsChange > 2, < -2
StableWeight == 5            \* effectiveWeightChange >= -0.5, <= 0.5
CardioPercent == 5           \* avgMetric * 0.05, change > 5, change < -5
RatioTenths == 7             \* strengthRatio > 0.7, cardioRatio > 0.7

----------------------------------------------------------------------------
(* Array helpers *)

Min2(a, b) == IF a < b THEN a ELSE b
Max2(a, b) == IF a > b THEN a ELSE b

RECURSIVE SumSeq(_)
\* arr.reduce((a, b) => a + b, 0)
SumSeq(s) == IF s = <<>> THEN 0 ELSE s[1] + SumSeq(Tail(s))

RECURSIVE MaxSeq(_)
\* Math.max(...arr), for a non-empty arr
MaxSeq(s) == IF Len(s) = 1 THEN s[1] ELSE Max2(s[1], MaxSeq(Tail(s)))

RECURSIVE MinSeq(_)
\* Math.min(...arr), for a non-empty arr
MinSeq(s) == IF Len(s) = 1 THEN s[1] ELSE Min2(s[1], MinSeq(Tail(s)))

\* arr.slice(0, k)
SliceTo(s, k) == SubSeq(s, 1, Min2(k, Len(s)))

\* arr.slice(k), k >= 0
SliceFrom(s, k) == IF k >= Len(s) THEN <<>> ELSE SubSeq(s, k + 1, Len(s))

\* arr.slice(-n): the last n elements; slice(-0) is slice(0), the whole array
SliceLast(s, n) == IF n = 0 \/ n >= Len(s) THEN s ELSE SubSeq(s, Len(s) - n + 1, Len(s))

\* arr.filter(d => d > 0)
FilterPositive(s) == SelectSeq(s, LAMBDA d : d > 0)

RECURSIVE SortedSeq(_)
\* Object.keys(obj).sort(): the keys in ascending order
SortedSeq(S) ==
    IF S = {} THEN <<>>
    ELSE LET m == CHOOSE x \in S : \A y \in S : x <= y
         IN  <<m>> \o SortedSeq(S \ {m})

----------------------------------------------------------------------------
(* Strings: a title is a sequence of one-character strings *)

UpperCase == <<"A","B","C","D","E","F","G","H","I","J","K","L","M",
               "N","O","P","Q","R","S","T","U","V","W","X","Y","Z">>
LowerCase == <<"a","b","c","d","e","f","g","h","i","j","k","l","m",
               "n","o","p","q","r","s","t","u","v","w","x","y","z">>

ToLowerChar(c) ==
    IF \E i \in 1..Len(UpperCase) : UpperCase[i] = c
    THEN LowerCase[CHOOSE i \in 1..Len(UpperCase) : UpperCase[i] = c]
    ELSE c

\* String.prototype.toLowerCase
ToLowerCase(str) == [i \in 1..Len(str) |-> ToLowerChar(str[i])]

\* String.prototype.includes
Includes(str, word) ==
    \E i \in 1..(Len(str) - Len(word) + 1) : SubSeq(str, i, i + Len(word) - 1) = word

\* The keywords of isAssistedExercise.  The third one is written with its
\* non-ASCII characters named, as the source file spells them.
assistedKeywords ==
    << <<"a","s","s","i","s","t","e","d">>,
       <<"s","u","p","p","o","r","t","e","d">>,
       <<"u","n","t","e","r","s","t","U+221A","U+00BA","t","z","t">> >>

----------------------------------------------------------------------------
(* The sets the model draws its input from.  A set record has the fields   *)
(* the grouping loop pushes: day, weight, reps, distance_km,               *)
(* duration_seconds (rpe and index are carried through untouched and are   *)
(* left out).                                                              *)

SetRecord(d, w, r, km, sec) ==
    [day |-> d, weight |-> w, reps |-> r, distance_km |-> km, duration_seconds |-> sec]

\* A numeric field of a set is a number n >= 0, or one of two values that
\* are not numbers of the model: Undefined for a field that is absent or
\* null, NaN for the result of Number() on a value that is not numeric (and
\* for such a value in the input).  NaN > 0 and Undefined > 0 are false.
Undefined == -1
NaN == -2

\* Number(x) || 0
OrZero(x) == IF x = NaN \/ x = Undefined THEN 0 ELSE x

\* a grouped set as the derivation loop reads it: every read of a numeric
\* field there is Number(s.field) || 0
Coerced(s) ==
    [s EXCEPT !.weight = OrZero(@), !.reps = OrZero(@),
              !.distance_km = OrZero(@), !.duration_seconds = OrZero(@)]

\* <<weight, reps, distance, duration>> menus
BenchMenu ==
    { <<1000, 8, 0, 0>>, <<1000, 9, 0, 0>>, <<1025, 8, 0, 0>>,
      <<1000, 11, 0, 0>>, <<1005, 8, 0, 0>> }

AssistedMenu ==
    { <<200, 8, 0, 0>>, <<150, 8, 0, 0>>, <<180, 8, 0, 0>> }

RunningMenu ==
    { <<0, 0, 39, 1200>>, <<0, 0, 41, 1200>>, <<0, 0, 50, 1500>>,
      <<0, 0, 0, 1200>>, <<0, 0, 0, 1500>>, <<0, 10, 0, 0>> }

FoldMenu ==
    { <<500, 5, 0, 0>>, <<500, 8, 0, 0>>, <<400, 12, 0, 0>>,
      <<0, 10, 0, 0>>, <<0, 0, 50, 1500>> }

TitleBench == <<"B","e","n","c","h"," ","P","r","e","s","s">>
TitleBand == <<"B","a","n","d"," ","P","u","l","l"," ","U","p">>
TitleAssisted == <<"A","s","s","i","s","t","e","d"," ","D","i","p">>
TitleRunning == <<"R","u","n","n","i","n","g">>

\* The exercise entries of the model: the title and type tag the record is
\* created with, and the sets such an exercise records.
StrengthProfiles ==
    { [title |-> TitleBench,    exercise_type |-> "weight_reps",              menu |-> BenchMenu],
      [title |-> TitleBand,     exercise_type |-> "bodyweight_assisted_reps", menu |-> AssistedMenu],
      [title |-> TitleAssisted, exercise_type |-> "null",                     menu |-> AssistedMenu] }

CardioProfiles ==
    { [title |-> TitleRunning,  exercise_type |-> "distance_duration",        menu |-> RunningMenu] }

TitleSquat == <<"S","q","u","a","t">>

TrendProfiles == StrengthProfiles \cup CardioProfiles

\* the sets an exercise entry with this title and type tag records
TrendMenu(t, et) ==
    UNION {p.menu : p \in {q \in TrendProfiles : q.title = t /\ q.exercise_type = et}}

\* Date.now() at the analysis: half a day before day MaxDay begins, exactly
\* InactiveDays days after it began, one hour short of a day later, and that
\* day later.
NowChoices ==
    { (MaxDay - 1) * DayLength + 12,
      (MaxDay + InactiveDays) * DayLength,
      (MaxDay + InactiveDays) * DayLength + (DayLength - 1),
      (MaxDay + InactiveDays + 1) * DayLength }

----------------------------------------------------------------------------
(* exerciseTypeDetector.ts *)

\* set.f !== null && set.f !== undefined && set.f > 0
HasPositive(s, f) == f \in DOMAIN s /\ s[f] > 0

IsStrengthSet(s) == HasPositive(s, "weight_kg") \/ HasPositive(s, "reps")
IsCardioSet(s) == HasPositive(s, "distance_km") \/ HasPositive(s, "duration_seconds")

strengthSets(ss) == Cardinality({i \in 1..Len(ss) : IsStrengthSet(ss[i])})

cardioSets(ss) == Cardinality({i \in 1..Len(ss) : IsCardioSet(ss[i])})

\* mutant: a ratio of exactly 0.7 already decides
detectExerciseTypeAtRatio(ss) ==
    IF Len(ss) = 0 THEN "unknown"
    ELSE LET totalClassifiedSets == strengthSets(ss) + cardioSets(ss)
         IN  IF totalClassifiedSets = 0 THEN "unknown"
             ELSE IF 10 * strengthSets(ss) >= RatioTenths * totalClassifiedSets THEN "strength"
             ELSE IF 10 * cardioSets(ss) >= RatioTenths * totalClassifiedSets THEN "cardio"
             ELSE IF strengthSets(ss) > 0 /\ cardioSets(ss) > 0 THEN "mixed"
             ELSE "unknown"

detectExerciseType(ss) ==
    IF Len(ss) = 0 THEN "unknown"
    ELSE LET totalClassifiedSets == strengthSets(ss) + cardioSets(ss)
         IN  IF totalClassifiedSets = 0 THEN "unknown"
             ELSE IF 10 * strengthSets(ss) > RatioTenths * totalClassifiedSets THEN "strength"
             ELSE IF 10 * cardioSets(ss) > RatioTenths * totalClassifiedSets THEN "cardio"
             ELSE IF strengthSets(ss) > 0 /\ cardioSets(ss) > 0 THEN "mixed"
             ELSE "unknown"

----------------------------------------------------------------------------
(* The byDay fold of the aggregation pass *)

EmptyDay ==
    [maxWeight |-> 0, repsAtMax |-> 0, totalReps |-> 0, volume |-> 0, setCount |-> 0,
     avgVolumePerSet |-> [num |-> 0, den |-> 1],
     totalDistance |-> 0, totalDuration |-> 0, maxDistance |-> 0, maxDuration |-> 0]

\* mutant: at the same weight the later set's reps replace the kept ones
FoldMaxWeightLastWins(cur, s) ==
    IF s.weight >= cur.maxWeight
    THEN [maxWeight |-> s.weight, repsAtMax |-> s.reps]
    ELSE [maxWeight |-> cur.maxWeight, repsAtMax |-> cur.repsAtMax]

\* the max-weight branch of the loop body: the new (maxWeight, repsAtMax)
FoldMaxWeight(cur, s) ==
    IF s.weight > cur.maxWeight
    THEN [maxWeight |-> s.weight, repsAtMax |-> s.reps]
    ELSE IF s.weight = cur.maxWeight
    THEN [maxWeight |-> cur.maxWeight, repsAtMax |-> Max2(cur.repsAtMax, s.reps)]
    ELSE [maxWeight |-> cur.maxWeight, repsAtMax |-> cur.repsAtMax]

\* mutant: a set with reps or weight is taken for a strength set and leaves
\* the cardio fields alone
FoldSetByFamily(cur, s) ==
    LET mw == FoldMaxWeight(cur, s)
        strength == s.reps > 0 \/ s.weight > 0
    IN  [cur EXCEPT
            !.volume = @ + s.weight * s.reps,
            !.setCount = @ + 1,
            !.totalReps = @ + s.reps,
            !.maxWeight = mw.maxWeight,
            !.repsAtMax = mw.repsAtMax,
            !.totalDistance = IF strength THEN @ ELSE @ + s.distance_km,
            !.totalDuration = IF strength THEN @ ELSE @ + s.duration_seconds,
            !.maxDistance = IF strength THEN @ ELSE Max2(@, s.distance_km),
            !.maxDuration = IF strength THEN @ ELSE Max2(@, s.duration_seconds)]

\* one pass of the loop body over set s on its day's aggregate cur
FoldSet(cur, s) ==
    LET mw == FoldMaxWeight(cur, s)
    IN  [cur EXCEPT
            !.volume = @ + s.weight * s.reps,
            !.setCount = @ + 1,
            !.totalReps = @ + s.reps,
            !.maxWeight = mw.maxWeight,
            !.repsAtMax = mw.repsAtMax,
            !.totalDistance = @ + s.distance_km,
            !.totalDuration = @ + s.duration_seconds,
            !.maxDistance = Max2(@, s.distance_km),
            !.maxDuration = Max2(@, s.duration_seconds)]

RECURSIVE FoldByDay(_, _)
\* for (const s of ex.sets) { const cur = (byDay[s.day] ||= {...}); ... }
FoldByDay(acc, ss) ==
    IF ss = <<>> THEN acc
    ELSE LET s == ss[1]
             cur == IF s.day \in DOMAIN acc THEN acc[s.day] ELSE EmptyDay
             next == [d \in DOMAIN acc \cup {s.day} |->
                         IF d = s.day THEN FoldSet(cur, Coerced(s)) ELSE acc[d]]
         IN  FoldByDay(next, Tail(ss))

\* dayData.avgVolumePerSet = setCount > 0 ? volume / setCount : 0, as a fraction
WithAvgVolume(bd) ==
    [d \in DOMAIN bd |->
        [bd[d] EXCEPT !.avgVolumePerSet =
            IF bd[d].setCount > 0
            THEN [num |-> bd[d].volume, den |-> bd[d].setCount]
            ELSE [num |-> 0, den |-> 1]]]

NoDays == [d \in {} |-> EmptyDay]

BuildByDay(ss) == WithAvgVolume(FoldByDay(NoDays, ss))

----------------------------------------------------------------------------
(* isAssistedExercise and analyzeStrengthProgress *)

\* ex.exercise_type === "bodyweight_assisted_reps", or a keyword in the title
isAssistedExercise(ex) ==
    \/ ex.exercise_type = "bodyweight_assisted_reps"
    \/ \E k \in 1..Len(assistedKeywords) : Includes(ToLowerCase(ex.title), assistedKeywords[k])

\* JavaScript null, and the {type, message} object; message holds the
\* numeric parameters handed to t(), not the translated text
Null == [type |-> "null", message |-> <<>>]
Insight(type, message) == [type |-> type, message |-> message]

\* Math.floor((Date.now() - new Date(lastDay).getTime()) / (1000 * 60 * 60 * 24))
DaysSinceLastWorkout(lastDay, nowT) == (nowT - lastDay * DayLength) \div DayLength

\* mutant: the threshold day itself counts as inactive
IsInactiveAtSixty(daysSinceLastWorkout) == daysSinceLastWorkout >= InactiveDays

IsInactive(daysSinceLastWorkout) == daysSinceLastWorkout > InactiveDays

\* mutant: exactly N day-buckets still count as too few
IsInsufficientAtN(nDays, minSessions) == nDays <= minSessions

IsInsufficient(nDays, minSessions) == nDays < minSessions

\* mutant: the reps range is not looked at
IsPlateauWeightOnly(weights, reps) ==
    MaxSeq(weights) - MinSeq(weights) <= PlateauWeightRange

\* weightRange <= 0.5 && repsRange <= 1
IsPlateau(weights, reps) ==
    /\ MaxSeq(weights) - MinSeq(weights) <= PlateauWeightRange
    /\ MaxSeq(reps) - MinSeq(reps) <= PlateauRepsRange

\* mutant: the weight change is not negated for an assisted exercise
EffectiveWeightChangeNotInverted(isAssisted, weightChange) == weightChange

\* isAssisted ? -weightChange : weightChange
EffectiveWeightChange(isAssisted, weightChange) ==
    IF isAssisted THEN 0 - weightChange ELSE weightChange

\* mutant: a weight change of exactly 2 counts as a gain
IsGainingAtTwo(eff, repsChange, den) ==
    \/ eff >= GainWeight * den
    \/ (repsChange > GainReps * den /\ eff >= 0 - StableWeight * den)

\* mutant: a weight change of exactly -2 counts as a loss
IsLosingAtTwo(eff, repsChange, den) ==
    \/ eff <= 0 - GainWeight * den
    \/ (repsChange < 0 - GainReps * den /\ eff <= StableWeight * den)

\* The changes are fractions over den = firstHalf.length * secondHalf.length.
\* effectiveWeightChange > 2 || (repsChange > 2 && effectiveWeightChange >= -0.5)
IsGaining(eff, repsChange, den) ==
    \/ eff > GainWeight * den
    \/ (repsChange > GainReps * den /\ eff >= 0 - StableWeight * den)

\* mutant: a reps drop counts as a loss whatever the weight did
IsLosingAnyWeight(eff, repsChange, den) ==
    \/ eff < 0 - GainWeight * den
    \/ repsChange < 0 - GainReps * den

\* effectiveWeightChange < -2 || (repsChange < -2 && effectiveWeightChange <= 0.5)
IsLosing(eff, repsChange, den) ==
    \/ eff < 0 - GainWeight * den
    \/ (repsChange < 0 - GainReps * den /\ eff <= StableWeight * den)

\* the strength branch, on the window's day keys
StrengthInsight(ex, lastNDays, minSessions) ==
    LET weights == [i \in 1..Len(lastNDays) |-> ex.byDay[lastNDays[i]].maxWeight]
        reps == [i \in 1..Len(lastNDays) |-> ex.byDay[lastNDays[i]].repsAtMax]
    IN  IF IsPlateau(weights, reps)
        THEN Insight("plateau", [repsMin |-> MinSeq(reps), repsMax |-> MaxSeq(reps)])
        ELSE
        LET midpoint == Len(lastNDays) \div 2
            n1 == Len(SliceTo(weights, midpoint))
            n2 == Len(SliceFrom(weights, midpoint))
            \* secondAvg - firstAvg, over the denominator n1 * n2
            weightChange == SumSeq(SliceFrom(weights, midpoint)) * n1
                            - SumSeq(SliceTo(weights, midpoint)) * n2
            repsChange == SumSeq(SliceFrom(reps, midpoint)) * n1
                          - SumSeq(SliceTo(reps, midpoint)) * n2
            eff == EffectiveWeightChange(isAssistedExercise(ex), weightChange)
        IN  IF n1 = 0 \/ n2 = 0
            THEN Insight("maintaining", <<>>)        \* 0 / 0 is NaN: both tests are false
            ELSE IF IsGaining(eff, repsChange, n1 * n2)
            THEN Insight("gaining", [sessions |-> minSessions])
            ELSE IF IsLosing(eff, repsChange, n1 * n2)
            THEN Insight("losing", [sessions |-> minSessions])
            ELSE Insight("maintaining", <<>>)

\* mutant: one value per day-bucket, the days without data kept as 0
CardioMetricPerSession(ex, lastNDays) ==
    LET distances == [i \in 1..Len(lastNDays) |-> ex.byDay[lastNDays[i]].maxDistance]
        durations == [i \in 1..Len(lastNDays) |-> ex.byDay[lastNDays[i]].totalDuration]
    IN  IF Len(FilterPositive(distances)) > 0 THEN distances
        ELSE IF Len(FilterPositive(durations)) > 0 THEN durations
        ELSE <<>>

\* distances.length > 0 ? distances : durations, both filtered to the positive values
CardioMetric(ex, lastNDays) ==
    LET distances == FilterPositive([i \in 1..Len(lastNDays) |-> ex.byDay[lastNDays[i]].maxDistance])
        durations == FilterPositive([i \in 1..Len(lastNDays) |-> ex.byDay[lastNDays[i]].totalDuration])
    IN  IF Len(distances) > 0 THEN distances ELSE durations

\* metricRange <= avgMetric * 0.05
IsCardioPlateau(metric) ==
    (MaxSeq(metric) - MinSeq(metric)) * Len(metric) * 100 <= CardioPercent * SumSeq(metric)

\* Math.floor(sessions.length / 2), sessions being the window's day-buckets
CardioMidpoint(nSessions, metric) == nSessions \div 2

\* the cardio branch, on the window's day keys
CardioInsight(ex, lastNDays, minSessions) ==
    LET metric == CardioMetric(ex, lastNDays)
    IN  IF Len(metric) = 0 THEN Null
        ELSE IF IsCardioPlateau(metric) THEN Insight("plateau", <<>>)
        ELSE
        LET midpoint == CardioMidpoint(Len(lastNDays), metric)
            firstHalf == SliceTo(metric, midpoint)
            secondHalf == SliceFrom(metric, midpoint)
            n1 == Len(firstHalf)
            n2 == Len(secondHalf)
            s1 == SumSeq(firstHalf)
            s2 == SumSeq(secondHalf)
            \* change = ((secondAvg - firstAvg) / firstAvg) * 100
            \*        = 100 * (s2 * n1 - s1 * n2) / (s1 * n2),  s1 * n2 > 0
        IN  IF n1 = 0 \/ n2 = 0
            THEN Insight("maintaining", <<>>)        \* an empty half: the mean is NaN
            ELSE IF 100 * (s2 * n1 - s1 * n2) > CardioPercent * s1 * n2
            THEN Insight("gaining", [sessions |-> minSessions])
            ELSE IF 100 * (s2 * n1 - s1 * n2) < 0 - CardioPercent * s1 * n2
            THEN Insight("losing", [sessions |-> minSessions])
            ELSE Insight("maintaining", <<>>)

\* mutant: the check for a missing last day is left out, so the date is
\* invalid, the gap NaN, and 0 days are fewer than N
NoLastDayInsufficient(minSessions) ==
    Insight("insufficient", [sessions |-> 0, needed |-> minSessions])

\* if (!lastDay) return null
NoLastDay(minSessions) == Null

analyzeStrengthProgress(ex, nowT, minSessions) ==
    LET days == SortedSeq(DOMAIN ex.byDay)
    IN  IF Len(days) = 0 THEN NoLastDay(minSessions)
        ELSE
        LET lastDay == days[Len(days)]
            daysSinceLastWorkout == DaysSinceLastWorkout(lastDay, nowT)
        IN  IF IsInactive(daysSinceLastWorkout)
            THEN Insight("inactive", [days |-> daysSinceLastWorkout])
            ELSE IF IsInsufficient(Len(days), minSessions)
            THEN Insight("insufficient", [sessions |-> Len(days), needed |-> minSessions])
            ELSE IF ex.exerciseType = "cardio"
            THEN CardioInsight(ex, SliceLast(days, minSessions), minSessions)
            ELSE StrengthInsight(ex, SliceLast(days, minSessions), minSessions)

----------------------------------------------------------------------------
(* The grouping loop of the aggregation pass                               *)
(*                                                                         *)
(* A workout is [start_time, exercises]; an exercise entry of a workout is *)
(* [title, de_title, es_title, exercise_type, sets]; a raw set is          *)
(* [weight_kg, reps, distance_km, duration_seconds, prs, personalRecords]. *)
(* An absent or empty title is <<>>, an absent type tag "null", an absent  *)
(* number 0.  start_time is in minutes since the epoch (UTC).              *)

Digits == <<"0","1","2","3","4","5","6","7","8","9">>

\* [a-z0-9]
IsAlnum(c) ==
    \/ \E i \in 1..Len(LowerCase) : LowerCase[i] = c
    \/ \E i \in 1..Len(Digits) : Digits[i] = c

RECURSIVE SkipRun(_)
\* the string after its leading run of characters outside a-z0-9
SkipRun(str) ==
    IF str = <<>> \/ IsAlnum(str[1]) THEN str ELSE SkipRun(Tail(str))

RECURSIVE ReplaceRuns(_)
\* .replace(/[^a-z0-9]+/g, "-")
ReplaceRuns(str) ==
    IF str = <<>> THEN <<>>
    ELSE IF IsAlnum(str[1]) THEN <<str[1]>> \o ReplaceRuns(Tail(str))
    ELSE <<"-">> \o ReplaceRuns(SkipRun(str))

RECURSIVE TrimLeft(_)
TrimLeft(str) ==
    IF str # <<>> /\ str[1] = "-" THEN TrimLeft(Tail(str)) ELSE str

RECURSIVE TrimRight(_)
TrimRight(str) ==
    IF str # <<>> /\ str[Len(str)] = "-" THEN TrimRight(SubSeq(str, 1, Len(str) - 1)) ELSE str

\* .replace(/^-+|-+$/g, "")
TrimDashes(str) == TrimRight(TrimLeft(str))

\* mutant: the title is not lowercased first
ExerciseIdCaseSensitive(t) == TrimDashes(ReplaceRuns(t))

\* String(title).toLowerCase().replace(...).replace(...)
ExerciseId(t) == TrimDashes(ReplaceRuns(ToLowerCase(t)))

UnknownExercise ==
    <<"U","n","k","n","o","w","n"," ","E","x","e","r","c","i","s","e">>

\* the title in the user's language when the entry has one, else the title
getLocalizedTitle(exercise, locale) ==
    IF locale = "de" /\ exercise.de_title # <<>> THEN exercise.de_title
    ELSE IF locale = "es" /\ exercise.es_title # <<>> THEN exercise.es_title
    ELSE IF exercise.title # <<>> THEN exercise.title
    ELSE UnknownExercise

\* mutant: the calendar day is read in UTC
DayKeyUtc(start_time, zone) == start_time \div (DayLength * HourLength)

\* the local calendar day of new Date(start_time * 1000): getFullYear(),
\* getMonth(), getDate() read the date in the zone of the browser
DayKey(start_time, zone) == (start_time + zone) \div (DayLength * HourLength)

\* entry.prs.push({type: String(p.type || ''), value: p.value, day: dayKey})
RECURSIVE PushPrs(_, _, _)
PushPrs(prs, ps, dayKey) ==
    IF ps = <<>> THEN prs
    ELSE PushPrs(Append(prs, [type |-> ps[1].type, value |-> ps[1].value, day |-> dayKey]),
                 Tail(ps), dayKey)

\* Number(x ?? 0)
NumberOrDefault(x) == IF x = Undefined THEN 0 ELSE x

\* an element of ex.sets that is null or undefined
AbsentSet == [absent |-> TRUE]
IsAbsent(s) == "absent" \in DOMAIN s

RECURSIVE GroupSets(_, _, _)
\* for (const s of (ex.sets || [])) { entry.sets.push(...); ... entry.prs.push(...) }
GroupSets(entry, ss, dayKey) ==
    IF ss = <<>> THEN entry
    ELSE LET s == ss[1]
             pushed == [entry EXCEPT
                 !.sets = Append(@, SetRecord(dayKey, NumberOrDefault(s.weight_kg),
                                              NumberOrDefault(s.reps),
                                              NumberOrDefault(s.distance_km),
                                              NumberOrDefault(s.duration_seconds))),
                 !.prs = PushPrs(@, s.prs \o s.personalRecords, dayKey)]
         IN  GroupSets(pushed, Tail(ss), dayKey)

\* map[id] ||= {id, title, exercise_type: ex.exercise_type || null, sets: [], prs: []}
NewEntry(id, t, ex) ==
    [id |-> id, title |-> t, exercise_type |-> ex.exercise_type, sets |-> <<>>, prs |-> <<>>]

\* the one id that names a property every object inherits: map[id] is then
\* Object itself, `||=` assigns nothing and entry.sets is undefined
ConstructorKey == <<"c","o","n","s","t","r","u","c","t","o","r">>

RECURSIVE GroupExercisesOverwrites(_, _, _, _)
\* mutant: map[id] = {...} instead of map[id] ||= {...}
GroupExercisesOverwrites(map, exs, dayKey, locale) ==
    IF exs = <<>> THEN map
    ELSE LET ex == exs[1]
             t == getLocalizedTitle(ex, locale)
             id == ExerciseId(t)
             grown == GroupSets(NewEntry(id, t, ex), ex.sets, dayKey)
             next == [k \in DOMAIN map \cup {id} |-> IF k = id THEN grown ELSE map[k]]
         IN  GroupExercisesOverwrites(next, Tail(exs), dayKey, locale)

RECURSIVE GroupExercises(_, _, _, _)
\* for (const ex of (w.exercises || [])) { ... }
GroupExercises(map, exs, dayKey, locale) ==
    IF exs = <<>> THEN map
    ELSE LET ex == exs[1]
             t == getLocalizedTitle(ex, locale)
             id == ExerciseId(t)
             entry == IF id \in DOMAIN map THEN map[id] ELSE NewEntry(id, t, ex)
             grown == GroupSets(entry, ex.sets, dayKey)
             next == IF id = ConstructorKey THEN map
                     ELSE [k \in DOMAIN map \cup {id} |-> IF k = id THEN grown ELSE map[k]]
         IN  GroupExercises(next, Tail(exs), dayKey, locale)

\* the body of the loop over ex.sets raises a TypeError: s.weight_kg and
\* s.rpe are read of a set that is null or undefined, entry.sets.push is
\* called on the inherited map.constructor
EntryThrows(ex, locale) ==
    /\ ex.sets # <<>>
    /\ \/ ExerciseId(getLocalizedTitle(ex, locale)) = ConstructorKey
       \/ \E i \in 1..Len(ex.sets) : IsAbsent(ex.sets[i])

\* the grouping loop raises on some entry of some session
GroupingThrows(ws, locale) ==
    \E i \in 1..Len(ws) : \E j \in 1..Len(ws[i].exercises) :
        EntryThrows(ws[i].exercises[j], locale)

\* w.start_time || 0
StartOrEpoch(start_time) == IF start_time = Undefined THEN 0 ELSE start_time

RECURSIVE GroupWorkouts(_, _, _, _)
\* for (const w of allWorkouts.value) { ... }
GroupWorkouts(map, ws, locale, zone) ==
    IF ws = <<>> THEN map
    ELSE GroupWorkouts(GroupExercises(map, ws[1].exercises,
                                      DayKey(StartOrEpoch(ws[1].start_time), zone),
                                      locale),
                       Tail(ws), locale, zone)

\* const map: Record<string, any> = {}
EmptyMap == [k \in {} |-> k]

----------------------------------------------------------------------------
(* The derivation loop of the aggregation pass: bodyweight flag, top sets, *)
(* distinct PRs                                                            *)

TopCount == 3                \* .slice(0,3)

\* mutant: the weights are not looked at
isBodyweightExerciseRepsOnly(ss) ==
    Len(ss) > 0 /\ \E i \in 1..Len(ss) : ss[i].reps > 0

\* exerciseTypeDetector.ts: hasReps && !hasWeight, false without sets
isBodyweightExercise(ss) ==
    /\ Len(ss) > 0
    /\ \E i \in 1..Len(ss) : ss[i].reps > 0
    /\ ~ \E i \in 1..Len(ss) : ss[i].weight > 0

\* ex.exercise_type === "reps_only" || isBodyweightExercise({ sets: ex.sets })
IsBodyweight(entry) ==
    entry.exercise_type = "reps_only" \/ isBodyweightExercise(entry.sets)

\* the comparator of the cardio sort
CompareCardio(a, b) ==
    IF a.distance_km > 0 /\ b.distance_km > 0
    THEN b.distance_km - a.distance_km
    ELSE b.duration_seconds - a.duration_seconds

\* mutant: assisted exercises are ranked like the others
CompareWorkDescending(a, b, isAssisted) ==
    b.weight * b.reps - a.weight * a.reps

\* the comparator of the strength sort
CompareWork(a, b, isAssisted) ==
    LET workA == a.weight * a.reps
        workB == b.weight * b.reps
    IN  IF isAssisted THEN workA - workB ELSE workB - workA

Compare(a, b, kind, isAssisted) ==
    IF kind = "cardio" THEN CompareCardio(Coerced(a), Coerced(b))
    ELSE CompareWork(Coerced(a), Coerced(b), isAssisted)

\* p orders the positions of ss as a stable sort does: an earlier element
\* compares below a later one, or equal to it and stood before it
IsStableOrder(p, ss, kind, isAssisted) ==
    \A x, y \in 1..Len(ss) :
        x < y => LET c == Compare(ss[p[x]], ss[p[y]], kind, isAssisted)
                 IN  c < 0 \/ (c = 0 /\ p[x] < p[y])

\* position i inserted into the sorted positions p: behind the last one
\* that does not compare above it
InsertSorted(p, i, ss, kind, isAssisted) ==
    LET notAbove == {x \in 1..Len(p) : Compare(ss[p[x]], ss[i], kind, isAssisted) <= 0}
        k == IF notAbove = {} THEN 0 ELSE CHOOSE x \in notAbove : \A y \in notAbove : y <= x
    IN  SubSeq(p, 1, k) \o <<i>> \o SubSeq(p, k + 1, Len(p))

RECURSIVE InsertionOrder(_, _, _, _)
\* the positions 1..n of ss, sorted by stable insertion
InsertionOrder(n, ss, kind, isAssisted) ==
    IF n = 0 THEN <<>>
    ELSE InsertSorted(InsertionOrder(n - 1, ss, kind, isAssisted), n, ss, kind, isAssisted)

\* Array.prototype.sort: the stable order when the comparator is consistent
\* on the elements (every stable sort then finds it); an
\* implementation-defined order when it is not
SortOrders(ss, kind, isAssisted) ==
    LET sorted == InsertionOrder(Len(ss), ss, kind, isAssisted)
    IN  IF IsStableOrder(sorted, ss, kind, isAssisted) THEN {sorted}
        ELSE Permutations(1..Len(ss))

\* [...ex.sets].sort(...).slice(0,3), for each order the sort can produce
TopSetsChoices(ss, kind, isAssisted) ==
    { SliceTo([i \in 1..Len(ss) |-> ss[p[i]]], TopCount) : p \in SortOrders(ss, kind, isAssisted) }

\* Number(v) || 0 for a PR value [t |-> "number", v |-> n] or a non-numeric one
NumberOrZero(val) == IF val.t = "number" THEN val.v ELSE 0

\* a PR value that is a number, and one that is not
Num(n) == [t |-> "number", v |-> n]
NotANumber == [t |-> "string", v |-> 0]

\* mutant: a later entry of the type always replaces the kept one
KeepsPrLastWins(kept, pr) == TRUE

\* val > (Number(prMap[type].value) || 0)
KeepsPr(kept, pr) == NumberOrZero(pr.value) > NumberOrZero(kept.value)

RECURSIVE PrDistinct(_, _)
\* prMap, as the sequence of its values in the order the types were first
\* set: for (const pr of ex.prs) if (!prMap[type] || val > ...) prMap[type] = pr
PrDistinct(prMap, prs) ==
    IF prs = <<>> THEN prMap
    ELSE LET pr == prs[1]
             at == {i \in 1..Len(prMap) : prMap[i].type = pr.type}
             next == IF at = {} THEN Append(prMap, pr)
                     ELSE [i \in 1..Len(prMap) |->
                              IF i \in at /\ KeepsPr(prMap[i], pr) THEN pr ELSE prMap[i]]
         IN  PrDistinct(next, Tail(prs))

\* the record as analyzeStrengthProgress reads it
ExRecord(t, et, kind, bd) ==
    [title |-> t, exercise_type |-> et, exerciseType |-> kind, byDay |-> bd]

\* the record the derivation loop makes of a grouped entry, with the top
\* sets the sort produced
DeriveRecord(entry, topSets, nowT, minSessions) ==
    LET kind == detectExerciseType(entry.sets)
        bd == BuildByDay(entry.sets)
        days == SortedSeq(DOMAIN bd)
    IN  [id |-> entry.id, title |-> entry.title, exercise_type |-> entry.exercise_type,
         sets |-> entry.sets, prs |-> entry.prs,
         exerciseType |-> kind,
         isBodyweight |-> IsBodyweight(entry),
         byDay |-> bd,
         totalSessions |-> Len(days),
         topSets |-> topSets,
         prDistinct |-> PrDistinct(<<>>, entry.prs),
         lastTrainedDate |-> IF Len(days) > 0 THEN days[Len(days)] ELSE 0,
         strengthInsight |-> analyzeStrengthProgress(
             ExRecord(entry.title, entry.exercise_type, kind, bd), nowT, minSessions)]

\* the top-set lists the sort can produce for a grouped entry
TopSetsOf(entry) ==
    TopSetsChoices(entry.sets, detectExerciseType(entry.sets), isAssistedExercise(entry))

\* the lists the computed can return for the grouped map, by id
ExercisesChoices(map, nowT, minSessions) ==
    { [id \in DOMAIN map |-> DeriveRecord(map[id], top[id], nowT, minSessions)] :
        top \in { f \in [DOMAIN map -> UNION {TopSetsOf(map[id]) : id \in DOMAIN map}] :
                      \A id \in DOMAIN map : f[id] \in TopSetsOf(map[id]) } }



----------------------------------------------------------------------------
(* The store and the router at rest                                        *)

\* workoutsLastFetched: null
NeverFetched == 0

\* state: () => ({userAccount: null, workouts: [], isLoadingUser: false,
\* isLoadingWorkouts: false, workoutsLastFetched: null, error: null});
\* an error message is TRUE, a user account the name of the user
InitialState ==
    [userAccount |-> "null", workouts |-> <<>>, isLoadingUser |-> FALSE,
     isLoadingWorkouts |-> FALSE, workoutsLastFetched |-> NeverFetched, error |-> FALSE]

\* a fetchWorkouts call that has not been made: its argument, its locals,
\* the parameters of the requests it sent, what it returned, and (history)
\* whether it was made after the last logout()
IdleCall ==
    [pc |-> "idle", force |-> FALSE, allWorkouts |-> <<>>, offset |-> 0, pagesFetched |-> 0,
     requests |-> <<>>, result |-> <<>>, afterLogout |-> FALSE]

\* the router before the first navigation
\* (currentRoute: the path of the route shown; to: the target of the
\* navigation under way; target and redirects: history of that navigation)
StartLocation == [currentRoute |-> "none", to |-> "none", target |-> "none", redirects |-> 0]

AppIdle ==
    /\ store = InitialState
    /\ calls = [c \in 1..MaxCalls |-> IdleCall]
    /\ clock = 1
    /\ backend = 0
    /\ localStorage = [hevy_api_key |-> FALSE, hevy_access_token |-> FALSE]
    /\ loggedOut = FALSE
    /\ router = StartLocation

----------------------------------------------------------------------------
(* The state machine: one exercise record of the aggregation pass *)

\* map[id] ||= {id, title, exercise_type, sets: [], prs: []}
InitRecord(profiles, sessionChoices) ==
    /\ \E p \in profiles : title = p.title /\ exercise_type = p.exercise_type
    /\ sets = <<>>
    /\ plateauDetectionSessions \in sessionChoices
    /\ now = -1
    /\ exerciseType = "unknown"
    /\ byDay = NoDays
    /\ strengthInsight = Null
    /\ pc = "group"
    /\ language = "en"
    /\ allWorkouts = <<>>
    /\ timezoneOffset = 0
    /\ exercises = <<>>
    /\ AppIdle

\* entry.sets.push({day: dayKey, weight, reps, distance_km, duration_seconds})
PushSet(d, m) ==
    /\ pc = "group"
    /\ sets' = Append(sets, SetRecord(d, m[1], m[2], m[3], m[4]))
    /\ UNCHANGED <<title, exercise_type, plateauDetectionSessions, now,
                   exerciseType, byDay, strengthInsight, pc>>
    /\ UNCHANGED passVars
    /\ UNCHANGED appVars

\* the derivation loop for the record: kind, byDay, insight
Derive(nowT) ==
    /\ pc = "group"
    /\ LET kind == detectExerciseType(sets)
           bd == BuildByDay(sets)
       IN  /\ exerciseType' = kind
           /\ byDay' = bd
           /\ strengthInsight' = analyzeStrengthProgress(
                  ExRecord(title, exercise_type, kind, bd), nowT, plateauDetectionSessions)
    /\ now' = nowT
    /\ pc' = "done"
    /\ UNCHANGED <<title, exercise_type, sets, plateauDetectionSessions>>
    /\ UNCHANGED passVars
    /\ UNCHANGED appVars

\* Training histories: the sessions oldest first, the exercise trained on
\* the consecutive days 1, 2, ... with one set per training day.  (The
\* analysis reads the day keys only through their order and the last one.)
LastPushedDay == IF sets = <<>> THEN 0 ELSE sets[Len(sets)].day

Init == InitRecord(StrengthProfiles, 1..MaxN)

PushHistory ==
    /\ LastPushedDay < MaxDay
    /\ \E m \in TrendMenu(title, exercise_type) : PushSet(LastPushedDay + 1, m)

Analyze == \E nowT \in NowChoices : Derive(nowT)

Next == PushHistory \/ Analyze

Spec == Init /\ [][Next]_vars

\* The same machine for a cardio exercise.
InitCardio == InitRecord(CardioProfiles, 1..MaxN)

SpecCardio == InitCardio /\ [][Next]_vars

\* One or two training days with several sets, pushed in any order.
InitFold ==
    InitRecord({[title |-> TitleSquat, exercise_type |-> "weight_reps"]}, {DefaultSessions})

PushAnyOrder ==
    /\ Len(sets) < MaxFoldSets
    /\ \E d \in 1..MaxFoldDay : \E m \in FoldMenu : PushSet(d, m)

NextFold == PushAnyOrder \/ Analyze

SpecFold == InitFold /\ [][NextFold]_vars

----------------------------------------------------------------------------
(* The state machine of the whole pass: the store's sessions and the       *)
(* computed list                                                           *)

RawSet(w, r, km, sec, prs, personalRecords) ==
    [weight_kg |-> w, reps |-> r, distance_km |-> km, duration_seconds |-> sec,
     prs |-> prs, personalRecords |-> personalRecords]

\* a set without PR annotations
PlainSet(w, r, km, sec) == RawSet(w, r, km, sec, <<>>, <<>>)

Entry(t, de, et, ss) ==
    [title |-> t, de_title |-> de, es_title |-> <<>>, exercise_type |-> et, sets |-> ss]

Workout(start, exs) == [start_time |-> start, exercises |-> exs]

\* Date.now() at the evaluation of the computed: days after the sessions of
\* the model, and more than InactiveDays days after them
PassNowChoices ==
    { (MaxDay - 1) * DayLength + 12, (MaxDay + InactiveDays + 1) * DayLength }

InitPassIn(languages, sessionChoices, zones) ==
    /\ title = <<>> /\ exercise_type = "null" /\ sets = <<>>
    /\ exerciseType = "unknown" /\ byDay = NoDays /\ strengthInsight = Null
    /\ plateauDetectionSessions \in sessionChoices
    /\ now = -1
    /\ pc = "group"
    /\ language \in languages
    /\ allWorkouts = <<>>
    /\ timezoneOffset \in zones
    /\ exercises = <<>>
    /\ AppIdle

\* the browser in the zone of UTC
InitPass(languages, sessionChoices) == InitPassIn(languages, sessionChoices, {0})

\* store.workouts gains a session
LoadWorkout(w) ==
    /\ pc = "group"
    /\ allWorkouts' = Append(allWorkouts, w)
    /\ UNCHANGED <<plateauDetectionSessions, now, pc, language, timezoneOffset, exercises>>
    /\ UNCHANGED recordVars
    /\ UNCHANGED appVars

\* the computed `exercises` is evaluated: grouping loop, then derivation loop
ComputeExercises ==
    /\ pc = "group"
    /\ IF GroupingThrows(allWorkouts, language)
       THEN /\ pc' = "threw"
            /\ UNCHANGED <<now, exercises>>
       ELSE /\ \E nowT \in PassNowChoices :
                  /\ exercises' \in ExercisesChoices(
                         GroupWorkouts(EmptyMap, allWorkouts, language, timezoneOffset),
                         nowT, plateauDetectionSessions)
                  /\ now' = nowT
            /\ pc' = "done"
    /\ UNCHANGED <<plateauDetectionSessions, language, allWorkouts, timezoneOffset>>
    /\ UNCHANGED recordVars
    /\ UNCHANGED appVars

\* Sessions of the grouping specification: two titles that normalize to the
\* same key, a German title on some entries only, two sessions on one day,
\* an exercise entered twice in a session, sets with PR annotations.
TitlePullUp == <<"P","u","l","l"," ","U","p">>
TitlePullUpMark == <<"p","u","l","l","-","u","p","!">>
TitleKlimmzug == <<"K","l","i","m","m","z","u","g">>

PR(type, value) == [type |-> type, value |-> value]

EntryPullUp ==
    Entry(TitlePullUp, TitleKlimmzug, "reps_only", <<PlainSet(0, 10, 0, 0)>>)
EntryPullUpAssisted ==
    Entry(TitlePullUpMark, <<>>, "bodyweight_assisted_reps",
          <<RawSet(200, 8, 0, 0, <<PR("best_weight", Num(200))>>, <<>>)>>)
EntryPullUpWeighted ==
    Entry(TitlePullUp, TitleKlimmzug, "reps_only",
          <<PlainSet(0, 12, 0, 0),
            RawSet(100, 5, 2, 60, <<>>, <<PR("best_weight", Num(100))>>)>>)
EntryRunning ==
    Entry(TitleRunning, <<>>, "distance_duration", <<PlainSet(0, 0, 50, 1500)>>)

\* 08:00 and 18:00 of day 1, 08:00 of day 2
SessionStarts ==
    {(DayLength + 8) * HourLength, (DayLength + 18) * HourLength, (2 * DayLength + 8) * HourLength}

SessionMenu ==
    { Workout(start, exs) :
        start \in SessionStarts,
        exs \in { <<EntryPullUp>>, <<EntryPullUpAssisted>>, <<EntryPullUpWeighted>>,
                  <<EntryRunning, EntryPullUp>>, <<EntryPullUp, EntryPullUpAssisted>>,
                  <<EntryPullUp, EntryPullUp>> } }

InitGroup == InitPass({"en", "de"}, {1, 2})

LoadSession ==
    /\ Len(allWorkouts) < MaxWorkouts
    /\ \E w \in SessionMenu : LoadWorkout(w)

NextGroup == LoadSession \/ ComputeExercises

SpecGroup == InitGroup /\ [][NextGroup]_vars

\* Sessions of the classification specification: one exercise, one set per
\* session, with reps only, a duration only, both, or neither.
TitleCarry == <<"C","a","r","r","y">>

DetectMenu == { <<0, 10, 0, 0>>, <<0, 0, 0, 60>>, <<0, 10, 0, 60>>, <<0, 0, 0, 0>> }

DetectSessions ==
    { Workout((DayLength + 8) * HourLength,
              <<Entry(TitleCarry, <<>>, "null", <<PlainSet(m[1], m[2], m[3], m[4])>>)>>) :
        m \in DetectMenu }

InitDetect == InitPass({"en"}, {DefaultSessions})

LoadDetectSession ==
    /\ Len(allWorkouts) < MaxDetectSets
    /\ \E w \in DetectSessions : LoadWorkout(w)

NextDetect == LoadDetectSession \/ ComputeExercises

SpecDetect == InitDetect /\ [][NextDetect]_vars

\* Sessions of the top-set specification: one exercise, assisted by its
\* title or not, one set per session: 50 kg x 1, 30 kg x 1, 10 kg x 5 (the
\* work of the first), reps only, a weight held for a duration, a duration
\* only.
TopMenu ==
    { <<500, 1, 0, 0>>, <<300, 1, 0, 0>>, <<100, 5, 0, 0>>,
      <<0, 10, 0, 0>>, <<200, 0, 0, 60>>, <<0, 0, 0, 60>> }

TopTitles == {TitleCarry, TitleAssisted}

TopSessions ==
    { Workout((DayLength + 8) * HourLength,
              <<Entry(t, <<>>, "null", <<PlainSet(m[1], m[2], m[3], m[4])>>)>>) :
        t \in TopTitles, m \in TopMenu }

InitTop == InitPass({"en"}, {1})

\* every session trains the exercise of the first one
LoadTopSession ==
    /\ Len(allWorkouts) < MaxTopSets
    /\ \E w \in TopSessions :
          /\ allWorkouts # <<>> => w.exercises[1].title = allWorkouts[1].exercises[1].title
          /\ LoadWorkout(w)

NextTop == LoadTopSession \/ ComputeExercises

SpecTop == InitTop /\ [][NextTop]_vars

\* Sessions of the cardio top-set specification: runs of 5 km and 3 km and
\* runs without a recorded distance, one set per session.
CardioTopMenu ==
    { <<0, 0, 50, 1000>>, <<0, 0, 30, 2000>>, <<0, 0, 0, 1500>>, <<0, 0, 0, 500>> }

CardioTopSessions ==
    { Workout((DayLength + 8) * HourLength,
              <<Entry(TitleRunning, <<>>, "distance_duration",
                      <<PlainSet(m[1], m[2], m[3], m[4])>>)>>) :
        m \in CardioTopMenu }

LoadCardioTopSession ==
    /\ Len(allWorkouts) < MaxTopSets
    /\ \E w \in CardioTopSessions : LoadWorkout(w)

NextCardioTop == LoadCardioTopSession \/ ComputeExercises

SpecCardioTop == InitTop /\ [][NextCardioTop]_vars

\* Sessions of the PR specification: one bench press set per session, with
\* one PR annotation, in `prs` or in `personalRecords`.
PrMenu ==
    { PR("1RM", Num(100)), PR("1RM", Num(120)), PR("1RM", Num(90)),
      PR("1RM", NotANumber), PR("best_reps", Num(10)) }

PrSessions ==
    { Workout((DayLength + 8) * HourLength,
              <<Entry(TitleBench, <<>>, "weight_reps", <<RawSet(1000, 8, 0, 0, a, b)>>)>>) :
        a \in {<<p>> : p \in PrMenu} \cup {<<>>}, b \in {<<PR("1RM", Num(100))>>, <<>>} }

LoadPrSession ==
    /\ Len(allWorkouts) < MaxPrSessions
    /\ \E w \in PrSessions : LoadWorkout(w)

NextPr == LoadPrSession \/ ComputeExercises

SpecPr == InitTop /\ [][NextPr]_vars

\* Sessions of the day-key specification: one exercise, one set per session,
\* started at a wall-clock time around a local midnight in a zone between
\* UTC-12:00 and UTC+14:00.
TimeZones == {-720, -300, 0, 330, 840}

\* minutes of local wall-clock time since the local midnight of day 0:
\* 00:01, 12:00 and 23:59 of day 1, 00:01 and 23:59 of day 2
WallClocks ==
    { DayLength * HourLength + 1, (DayLength + 12) * HourLength,
      2 * DayLength * HourLength - 1, 2 * DayLength * HourLength + 1,
      3 * DayLength * HourLength - 1 }

\* the epoch timestamp of a local wall-clock time in a zone
StartOf(wallClock, zone) == wallClock - zone

InitDayKey == InitPassIn({"en"}, {2}, TimeZones)

LoadDayKeySession ==
    /\ Len(allWorkouts) < MaxWorkouts
    /\ \E c \in WallClocks :
          LoadWorkout(Workout(StartOf(c, timezoneOffset), <<EntryPullUp>>))

NextDayKey == LoadDayKeySession \/ ComputeExercises

SpecDayKey == InitDayKey /\ [][NextDayKey]_vars

\* Sessions of the malformed-input specification: sets whose numeric fields
\* are absent or not numeric, a set that is null, an entry without title, an
\* entry titled "Constructor", a session without start time.
TitleConstructor == <<"C","o","n","s","t","r","u","c","t","o","r">>

MalformedSets ==
    { <<PlainSet(1000, 8, 0, 0)>>,
      <<PlainSet(1000, 8, 0, 0), PlainSet(Undefined, 8, Undefined, Undefined)>>,
      <<PlainSet(NaN, 8, 0, 0), PlainSet(1000, NaN, 0, 0)>>,
      <<PlainSet(0, 0, NaN, 600), PlainSet(0, 0, 50, Undefined)>>,
      <<PlainSet(1000, 8, 0, 0), AbsentSet>>,
      <<>> }

MalformedSessions ==
    { Workout(start, <<Entry(t, <<>>, "null", ss)>>) :
        start \in {Undefined, (DayLength + 8) * HourLength},
        t \in {TitleBench, <<>>, TitleConstructor},
        ss \in MalformedSets }

InitMalformed == InitPass({"en"}, {1})

LoadMalformedSession ==
    /\ Len(allWorkouts) < MaxWorkouts
    /\ \E w \in MalformedSessions : LoadWorkout(w)

NextMalformed == LoadMalformedSession \/ ComputeExercises

SpecMalformed == InitMalformed /\ [][NextMalformed]_vars

----------------------------------------------------------------------------
(* The store hevyCache and the workout service                             *)
(*                                                                         *)
(* A workout is its position 1, 2, ... in the list of the backend.  A call *)
(* of fetchWorkouts stands at "idle" (not made), "awaitUser" (GET          *)
(* /user/account under way), "awaitBatch" (GET /workouts under way),       *)
(* "returned" (the cached list was returned), "done" (the fetched list was *)
(* stored and returned) or "threw" (a request failed).                     *)

FiveMinutes == 5             \* 5 * 60 * 1000 ms
pageSize == 5                \* const pageSize = 5
maxPages == 2000             \* const maxPages = 2000
ServicePageSize == 10        \* page_size: 10, Math.floor(offset / 10)
FreeBatchSize == 5           \* "batches of 5": what the backend serves per offset

\* workouts the backend holds: none, less than a page, more than a page
BackendCounts == {0, 7, 12}

\* state.userAccount?.username || null
username(state) == state.userAccount

\* state.workouts.length > 0
hasWorkouts(state) == Len(state.workouts) > 0

\* mutant: a list fetched exactly five minutes ago is fetched again
shouldRefetchWorkoutsAtFive(state, nowT) ==
    IF state.workoutsLastFetched = NeverFetched THEN TRUE
    ELSE nowT - state.workoutsLastFetched >= FiveMinutes

\* if (!state.workoutsLastFetched) return true;
\* return Date.now() - state.workoutsLastFetched > fiveMinutes
shouldRefetchWorkouts(state, nowT) ==
    IF state.workoutsLastFetched = NeverFetched THEN TRUE
    ELSE nowT - state.workoutsLastFetched > FiveMinutes

\* workoutService.getWorkouts(username, offset): the parameters of the
\* request, by page when an API key is stored, by offset otherwise
getWorkouts(name, offset, apiKey) ==
    IF apiKey THEN [page |-> offset \div ServicePageSize + 1, page_size |-> ServicePageSize]
    ELSE [username |-> name, offset |-> offset]

\* the positions lo + 1 .. min(lo + n, count), in order
Positions(lo, n, count) ==
    [i \in 1..(IF lo >= count THEN 0 ELSE IF lo + n > count THEN count - lo ELSE n) |-> lo + i]

\* result.workouts of GET /workouts: the page asked for, or the batch at the
\* offset asked for, of the list the backend holds
Batch(params, count) ==
    IF "page" \in DOMAIN params
    THEN Positions((params.page - 1) * params.page_size, params.page_size, count)
    ELSE Positions(params.offset, FreeBatchSize, count)

\* the call sends the request for the batch at its offset
SendRequest(frame, state) ==
    [frame EXCEPT !.pc = "awaitBatch",
                  !.requests = Append(@, getWorkouts(username(state), frame.offset,
                                                    localStorage.hevy_api_key))]

\* fetchWorkouts(force), up to its first await or its return
fetchWorkouts(c, force) ==
    /\ calls[c].pc = "idle"
    /\ LET made == [calls[c] EXCEPT !.force = force, !.afterLogout = TRUE]
           loading == [store EXCEPT !.isLoadingWorkouts = TRUE, !.error = FALSE]
       IN  IF hasWorkouts(store) /\ ~shouldRefetchWorkouts(store, clock) /\ ~force
           THEN /\ calls' = [calls EXCEPT ![c] =
                                [made EXCEPT !.pc = "returned", !.result = store.workouts]]
                /\ UNCHANGED store
           ELSE IF username(loading) = "null"
           THEN \* fetchUserAccount(): no account is held, GET /user/account
                /\ store' = [loading EXCEPT !.isLoadingUser = TRUE, !.error = FALSE]
                /\ calls' = [calls EXCEPT ![c] = [made EXCEPT !.pc = "awaitUser"]]
           ELSE /\ store' = loading
                /\ calls' = [calls EXCEPT ![c] = SendRequest(made, loading)]
    /\ UNCHANGED <<clock, backend, localStorage, loggedOut, router>>
    /\ UNCHANGED analysisVars

\* GET /user/account answers: the account is stored and the loop entered,
\* or the error is stored and rethrown
AccountResponse(c, ok) ==
    /\ calls[c].pc = "awaitUser"
    /\ IF ok
       THEN LET held == [store EXCEPT !.userAccount = "user", !.isLoadingUser = FALSE]
            IN  /\ store' = held
                /\ calls' = [calls EXCEPT ![c] = SendRequest(@, held)]
       ELSE /\ store' = [store EXCEPT !.error = TRUE, !.isLoadingUser = FALSE,
                                      !.isLoadingWorkouts = FALSE]
            /\ calls' = [calls EXCEPT ![c] = [@ EXCEPT !.pc = "threw"]]
    /\ UNCHANGED <<clock, backend, localStorage, loggedOut, router>>
    /\ UNCHANGED analysisVars

\* GET /workouts answers: an empty batch or the cap ends the loop, the list
\* is stored with the time and returned; another batch is appended and the
\* next one asked for; a failure is stored and rethrown
WorkoutsResponse(c, ok) ==
    /\ calls[c].pc = "awaitBatch"
    /\ LET frame == calls[c]
           batch == Batch(frame.requests[Len(frame.requests)], backend)
           grown == [frame EXCEPT !.allWorkouts = @ \o batch,
                                  !.offset = @ + pageSize,
                                  !.pagesFetched = @ + 1]
           last == IF batch = <<>> THEN frame ELSE grown
       IN  IF ~ok
           THEN /\ store' = [store EXCEPT !.error = TRUE, !.isLoadingWorkouts = FALSE]
                /\ calls' = [calls EXCEPT ![c] = [@ EXCEPT !.pc = "threw"]]
           ELSE IF batch # <<>> /\ grown.pagesFetched < maxPages
           THEN /\ calls' = [calls EXCEPT ![c] = SendRequest(grown, store)]
                /\ UNCHANGED store
           ELSE /\ store' = [store EXCEPT !.workouts = last.allWorkouts,
                                          !.workoutsLastFetched = clock,
                                          !.isLoadingWorkouts = FALSE]
                /\ calls' = [calls EXCEPT ![c] =
                                [last EXCEPT !.pc = "done", !.result = last.allWorkouts]]
    /\ UNCHANGED <<clock, backend, localStorage, loggedOut, router>>
    /\ UNCHANGED analysisVars

\* logout()
logout ==
    /\ store' = [store EXCEPT !.userAccount = "null", !.workouts = <<>>,
                              !.workoutsLastFetched = NeverFetched, !.error = FALSE]
    /\ loggedOut' = TRUE
    /\ calls' = [c \in DOMAIN calls |-> [calls[c] EXCEPT !.afterLogout = FALSE]]
    /\ UNCHANGED <<clock, backend, localStorage, router>>
    /\ UNCHANGED analysisVars

\* a minute passes
Tick ==
    /\ clock < MaxClock
    /\ clock' = clock + 1
    /\ UNCHANGED <<store, calls, backend, localStorage, loggedOut, router>>
    /\ UNCHANGED analysisVars

\* the record and the pass at rest
AnalysisIdle ==
    /\ title = <<>> /\ exercise_type = "null" /\ sets = <<>>
    /\ exerciseType = "unknown" /\ byDay = NoDays /\ strengthInsight = Null
    /\ plateauDetectionSessions = DefaultSessions
    /\ now = -1
    /\ pc = "group"
    /\ language = "en"
    /\ allWorkouts = <<>>
    /\ timezoneOffset = 0
    /\ exercises = <<>>

InitStore ==
    /\ AnalysisIdle
    /\ store = InitialState
    /\ calls = [c \in 1..MaxCalls |-> IdleCall]
    /\ clock = 1
    /\ backend \in BackendCounts
    /\ localStorage \in [hevy_api_key : BOOLEAN, hevy_access_token : {TRUE}]
    /\ loggedOut = FALSE
    /\ router = StartLocation

NextStore ==
    \/ \E c \in 1..MaxCalls : \E force \in BOOLEAN : fetchWorkouts(c, force)
    \/ \E c \in 1..MaxCalls : \E ok \in BOOLEAN : AccountResponse(c, ok)
    \/ \E c \in 1..MaxCalls : \E ok \in BOOLEAN : WorkoutsResponse(c, ok)
    \/ logout
    \/ Tick

SpecStore == InitStore /\ [][NextStore]_vars

----------------------------------------------------------------------------
(* The router and its navigation guard                                     *)

\* target paths: the root, the login page as the route has it and with a
\* trailing slash, pages of the application, a path no route has
Paths == {"/", "/login", "/login/", "/dashboard", "/workouts-card", "/exercises",
          "/settings", "/nope"}

\* the route record the matcher finds for a path: createRouter is given no
\* `strict` option, so a path with a trailing slash matches the route
\* without it; the catch-all matches what no other route does
Match(path) ==
    IF path \in {"/login", "/login/"} THEN [name |-> "Login", requiresAuth |-> FALSE]
    ELSE IF path = "/dashboard" THEN [name |-> "Dashboard", requiresAuth |-> TRUE]
    ELSE IF path = "/workouts-card" THEN [name |-> "Workouts_Card", requiresAuth |-> TRUE]
    ELSE IF path = "/exercises" THEN [name |-> "Exercises", requiresAuth |-> TRUE]
    ELSE IF path = "/settings" THEN [name |-> "Settings", requiresAuth |-> TRUE]
    ELSE [name |-> "NotFoundRedirect", requiresAuth |-> TRUE]

\* {path: "/", redirect: "/dashboard"}: the location a path resolves to
Resolve(path) == IF path = "/" THEN "/dashboard" ELSE path

\* next(): the navigation is confirmed
Proceed == "next"

\* router.beforeEach((to, _from, next) => ...): the argument given to next
beforeEach(to, token) ==
    IF Match(to).requiresAuth /\ ~token THEN "/login"
    ELSE IF to = "/login" /\ token THEN "/dashboard"
    ELSE IF Match(to).name = "NotFoundRedirect"
    THEN IF token THEN "/dashboard" ELSE "/login"
    ELSE Proceed

\* router.push(path), or the address typed: a navigation starts
push(path) ==
    /\ router.to = "none"
    /\ router' = [router EXCEPT !.to = Resolve(path), !.target = path, !.redirects = 0]
    /\ UNCHANGED <<store, calls, clock, backend, localStorage, loggedOut>>
    /\ UNCHANGED analysisVars

\* the guard runs on the target: the route is entered, or the navigation
\* is redirected
Guard ==
    /\ router.to # "none"
    /\ LET answer == beforeEach(router.to, localStorage.hevy_access_token)
       IN  router' = IF answer = Proceed
                     THEN [router EXCEPT !.currentRoute = router.to, !.to = "none"]
                     ELSE [router EXCEPT !.to = Resolve(answer), !.redirects = @ + 1]
    /\ UNCHANGED <<store, calls, clock, backend, localStorage, loggedOut>>
    /\ UNCHANGED analysisVars

\* between two navigations the user logs in or out: the token is stored or removed
SetToken(present) ==
    /\ router.to = "none"
    /\ localStorage.hevy_access_token # present
    /\ localStorage' = [localStorage EXCEPT !.hevy_access_token = present]
    /\ UNCHANGED <<store, calls, clock, backend, loggedOut, router>>
    /\ UNCHANGED analysisVars

InitRouter ==
    /\ AnalysisIdle
    /\ store = InitialState
    /\ calls = [c \in 1..MaxCalls |-> IdleCall]
    /\ clock = 1
    /\ backend = 0
    /\ localStorage \in [hevy_api_key : {FALSE}, hevy_access_token : BOOLEAN]
    /\ loggedOut = FALSE
    /\ router = StartLocation

NextRouter ==
    \/ \E path \in Paths : push(path)
    \/ Guard
    \/ \E present \in BOOLEAN : SetToken(present)

SpecRouter == InitRouter /\ [][NextRouter]_vars

----------------------------------------------------------------------------
(* What the claims speak of, stated on the derived record with sets of     *)
(* days rather than with the arrays of the code                            *)

Done == pc = "done"
Outcome == strengthInsight.type
Days == DOMAIN byDay
LatestDay == CHOOSE d \in Days : \A e \in Days : e <= d

\* hours between the start of the latest day with data and the evaluation
GapHours == now - LatestDay * 24

\* more than 60 whole days: at least 61 days
OlderThan60Days == GapHours >= 61 * 24

\* the last N day-buckets
Window == {d \in Days : Cardinality({e \in Days : e > d}) < plateauDetectionSessions}

\* the first floor(N/2) day-buckets of the window, and the remaining ones
FirstHalf ==
    {d \in Window : Cardinality({e \in Window : e <= d}) <= plateauDetectionSessions \div 2}
SecondHalf == Window \ FirstHalf

RECURSIVE SumOver(_, _)
\* the sum of f[d] over the days d of S
SumOver(S, f) ==
    IF S = {} THEN 0
    ELSE LET d == CHOOSE x \in S : TRUE IN f[d] + SumOver(S \ {d}, f)

\* max - min of f over the non-empty set S
RangeOver(S, f) == (CHOOSE a \in {f[d] : d \in S} : \A b \in {f[d] : d \in S} : b <= a)
                   - (CHOOSE a \in {f[d] : d \in S} : \A b \in {f[d] : d \in S} : a <= b)

\* mean(SecondHalf) - mean(FirstHalf) of f, times |FirstHalf| * |SecondHalf|
HalfChange(f) ==
    SumOver(SecondHalf, f) * Cardinality(FirstHalf)
    - SumOver(FirstHalf, f) * Cardinality(SecondHalf)
HalfDen == Cardinality(FirstHalf) * Cardinality(SecondHalf)

MaxWeightOf == [d \in Days |-> byDay[d].maxWeight]
RepsAtMaxOf == [d \in Days |-> byDay[d].repsAtMax]
MaxDistanceOf == [d \in Days |-> byDay[d].maxDistance]
TotalDurationOf == [d \in Days |-> byDay[d].totalDuration]

\* the exercise passed the inactivity and the sufficiency check
PastChecks == Done /\ Days # {} /\ Outcome \notin {"inactive", "insufficient"}
NonCardio == exerciseType # "cardio"

\* assisted: the type tag, or the keyword in the title
Assisted == exercise_type = "bodyweight_assisted_reps" \/ title = TitleAssisted

\* weightChange and repsChange of the claims, over HalfDen; weights in tenths of a kg
WeightChange == HalfChange(MaxWeightOf)
RepsChange == HalfChange(RepsAtMaxOf)
EffChange == IF Assisted THEN 0 - WeightChange ELSE WeightChange

GainCondition ==
    EffChange > 20 * HalfDen \/ (RepsChange > 2 * HalfDen /\ EffChange >= 0 - 5 * HalfDen)
LoseCondition ==
    EffChange < 0 - 20 * HalfDen \/ (RepsChange < 0 - 2 * HalfDen /\ EffChange <= 5 * HalfDen)

----------------------------------------------------------------------------
\* C1: for an exercise with at least one day-bucket the outcome is `inactive`
\* exactly when the latest day with data is more than 60 whole days before
\* the evaluation time (exactly 60 days is not), whatever the number of
\* day-buckets (so never `insufficient` then), and the payload is the gap
\* in whole days.
C1_InactiveFirst ==
    (Done /\ Days # {}) =>
        /\ (Outcome = "inactive") <=> OlderThan60Days
        /\ GapHours = 60 * 24 => Outcome # "inactive"
        /\ (OlderThan60Days /\ Cardinality(Days) < plateauDetectionSessions)
               => Outcome # "insufficient"
        /\ Outcome = "inactive" =>
               /\ strengthInsight.message.days * 24 <= GapHours
               /\ GapHours < (strengthInsight.message.days + 1) * 24

\* two day-buckets, fewer than N, the latest more than 60 days old: inactive
C1_Witness ==
    /\ Done /\ Cardinality(Days) = 2 /\ plateauDetectionSessions = 5
    /\ OlderThan60Days /\ Outcome = "inactive" /\ strengthInsight.message.days = 63

C3_Plateau ==
    (PastChecks /\ NonCardio) =>
        ((Outcome = "plateau") <=>
            (RangeOver(Window, MaxWeightOf) <= 5 /\ RangeOver(Window, RepsAtMaxOf) <= 1))

\* N = 5, maxWeight constant at 100, repsAtMax alternating 8 and 9
C3_Witness ==
    /\ Done /\ plateauDetectionSessions = 5 /\ Days = 1..5
    /\ \A d \in Days : byDay[d].maxWeight = 1000
    /\ \A d \in {1, 3, 5} : byDay[d].repsAtMax = 8
    /\ \A d \in {2, 4} : byDay[d].repsAtMax = 9
    /\ Outcome = "plateau"

\* C4: for a non-cardio exercise past both checks and not plateau the
\* outcome is `gaining` exactly when effectiveWeightChange > 2 or
\* (repsChange > 2 and effectiveWeightChange >= -0.5), the changes being
\* second-half mean minus first-half mean, the weight change negated for an
\* assisted exercise.
C4_Gaining ==
    (PastChecks /\ NonCardio /\ Outcome # "plateau") =>
        ((Outcome = "gaining") <=> GainCondition)

\* N = 5, the second-half mean weight 2.5 above the first-half mean, reps constant
C4_Witness ==
    /\ Done /\ plateauDetectionSessions = 5 /\ Days = 1..5 /\ ~Assisted
    /\ \A d \in {1, 2} : byDay[d].maxWeight = 1000
    /\ \A d \in {3, 4, 5} : byDay[d].maxWeight = 1025
    /\ \A d \in Days : byDay[d].repsAtMax = 8
    /\ Outcome = "gaining"

\* C5: for a non-cardio exercise past both checks, not plateau and not
\* gaining, the outcome is `losing` exactly when effectiveWeightChange < -2
\* or (repsChange < -2 and effectiveWeightChange <= 0.5), and `maintaining`
\* otherwise; the strength branch never returns null.
C5_LosingOrMaintaining ==
    /\ (PastChecks /\ NonCardio /\ Outcome \notin {"plateau", "gaining"}) =>
           /\ (Outcome = "losing") <=> LoseCondition
           /\ (Outcome = "maintaining") <=> ~LoseCondition
    /\ (PastChecks /\ NonCardio) => Outcome # "null"

\* a reps drop of 3 with the weight mean 0.5 higher: losing by the second disjunct
C5_Witness ==
    /\ Done /\ plateauDetectionSessions = 5 /\ Days = 1..5 /\ ~Assisted
    /\ \A d \in {1, 2} : byDay[d].maxWeight = 1000 /\ byDay[d].repsAtMax = 11
    /\ \A d \in {3, 4, 5} : byDay[d].maxWeight = 1005 /\ byDay[d].repsAtMax = 8
    /\ Outcome = "losing"

\* C6: for an assisted exercise the weight direction is inverted: with the
\* same reps mean in both halves, a recorded-weight mean that falls by more
\* than 2 gives `gaining` and one that rises by more than 2 gives `losing`,
\* the opposite of what a non-assisted exercise with the same day
\* aggregates gets.
NonAssistedOutcome ==
    analyzeStrengthProgress(ExRecord(TitleBench, "weight_reps", exerciseType, byDay),
                            now, plateauDetectionSessions).type

C6_AssistedInverted ==
    (PastChecks /\ NonCardio /\ Assisted /\ Outcome # "plateau" /\ RepsChange = 0) =>
        /\ WeightChange < 0 - 20 * HalfDen =>
               (Outcome = "gaining" /\ NonAssistedOutcome = "losing")
        /\ WeightChange > 20 * HalfDen =>
               (Outcome = "losing" /\ NonAssistedOutcome = "gaining")

\* N = 5, the recorded weight falls from a first-half mean of 20 to 15
C6_Witness ==
    /\ Done /\ plateauDetectionSessions = 5 /\ Days = 1..5 /\ title = TitleAssisted
    /\ \A d \in {1, 2} : byDay[d].maxWeight = 200
    /\ \A d \in {3, 4, 5} : byDay[d].maxWeight = 150
    /\ \A d \in Days : byDay[d].repsAtMax = 8
    /\ Outcome = "gaining" /\ NonAssistedOutcome = "losing"

----------------------------------------------------------------------------
(* The cardio branch *)

Cardio == exerciseType = "cardio"

\* the window's day-buckets that recorded distance, and those with duration
DistanceDays == {d \in Window : byDay[d].maxDistance > 0}
DurationDays == {d \in Window : byDay[d].totalDuration > 0}

\* the chosen metric: maxDistance when any day of the window recorded
\* distance, totalDuration only when none did
ChosenOf == IF DistanceDays # {} THEN MaxDistanceOf ELSE TotalDurationOf
\* the days whose value of the chosen metric is positive
UsableDays == IF DistanceDays # {} THEN DistanceDays ELSE DurationDays

\* the series the code works on, for the record of the state
MetricSeries ==
    CardioMetric(ExRecord(title, exercise_type, exerciseType, byDay), SortedSeq(Window))

\* max - min of the chosen metric over S is at most 5% of its mean over S
WithinFivePercent(S) ==
    RangeOver(S, ChosenOf) * Cardinality(S) * 100 <= 5 * SumOver(S, ChosenOf)

\* C7 as stated: the series holds one value per day-bucket of the window and
\* the outcome is `plateau` exactly when max - min of the per-session series
\* is at most 5% of its mean.
C7_PerSessionSeries ==
    (PastChecks /\ Cardio /\ Outcome # "null") =>
        /\ Len(MetricSeries) = Cardinality(Window)
        /\ (Outcome = "plateau") <=> WithinFivePercent(Window)

\* C7 amended: for a cardio exercise past both checks the series holds the
\* positive values only: the maxDistance of every window day that recorded
\* distance when any did, else the totalDuration of every window day with a
\* duration; days without a value are dropped.  The outcome is `plateau`
\* exactly when the series is not empty and its max - min is at most 5% of
\* its mean.
C7_UsableSeriesPlateau ==
    (PastChecks /\ Cardio) =>
        /\ Len(MetricSeries) = Cardinality(UsableDays)
        /\ \A i \in 1..Len(MetricSeries) :
               MetricSeries[i] = ChosenOf[SortedSeq(UsableDays)[i]]
        /\ (Outcome = "plateau") <=> (UsableDays # {} /\ WithinFivePercent(UsableDays))

\* a window with a day without distance: the day is dropped and the rest is a plateau
C7_Witness ==
    /\ Done /\ Cardio /\ plateauDetectionSessions = 3 /\ Cardinality(Days) = 3
    /\ DistanceDays # {} /\ DistanceDays # Window
    /\ Outcome = "plateau" /\ ~WithinFivePercent(Window)

\* C8: for a cardio exercise that reaches the half comparison the outcome is
\* `gaining` exactly when the mean of the chosen metric over the window's
\* sessions after the first floor(N/2) exceeds the mean over the first
\* floor(N/2) sessions by more than 5% of that first mean, `losing` exactly
\* when it is lower by more than 5%, and `maintaining` otherwise.
C8_HalvesBySession ==
    (PastChecks /\ Cardio /\ Outcome \in {"gaining", "losing", "maintaining"}) =>
        LET change == HalfChange(ChosenOf)
            firstMean == SumOver(FirstHalf, ChosenOf) * Cardinality(SecondHalf)
        IN  /\ (Outcome = "gaining") <=> (100 * change > 5 * firstMean)
            /\ (Outcome = "losing") <=> (100 * change < 0 - 5 * firstMean)

\* the window has no day-bucket with positive distance or duration
NoCardioData == \A d \in Window : byDay[d].maxDistance = 0 /\ byDay[d].totalDuration = 0

\* cardio, neither inactive nor insufficient, nothing usable in the window
CardioWithoutData ==
    /\ Cardio /\ Days # {}
    /\ ~OlderThan60Days /\ Cardinality(Days) >= plateauDetectionSessions
    /\ NoCardioData

SixOutcomes == {"inactive", "insufficient", "plateau", "gaining", "losing", "maintaining"}

----------------------------------------------------------------------------
(* The day fold *)

\* the sets of the exercise recorded on day d, by their position in ex.sets
SetsOn(d) == {i \in 1..Len(sets) : sets[i].day = d}

MaxOf(S) == CHOOSE a \in S : \A b \in S : b <= a

\* the greatest weight among the day's sets, 0 when none is positive
GreatestWeight(d) == MaxOf({sets[i].weight : i \in SetsOn(d)} \cup {0})

\* the greatest rep count among the day's sets recorded at that weight
GreatestRepsAtMax(d) ==
    MaxOf({sets[i].reps : i \in {j \in SetsOn(d) : sets[j].weight = GreatestWeight(d)}})

\* C10: after all sets of the exercise are folded, each day's maxWeight is
\* the greatest weight among that day's sets (0 when none is positive) and
\* repsAtMax the greatest rep count among the sets at that weight, in
\* whatever order the sets were folded.
C10_MaxWeightAndReps ==
    Done => /\ Days = {sets[i].day : i \in 1..Len(sets)}
            /\ \A d \in Days :
                   /\ byDay[d].maxWeight = GreatestWeight(d)
                   /\ byDay[d].repsAtMax = GreatestRepsAtMax(d)

\* the set with more reps is folded before one with fewer reps at the same weight
C10_Witness ==
    /\ Done /\ Len(sets) = 3
    /\ sets[1] = SetRecord(1, 400, 12, 0, 0)
    /\ sets[2] = SetRecord(1, 500, 8, 0, 0)
    /\ sets[3] = SetRecord(1, 500, 5, 0, 0)
    /\ byDay[1].maxWeight = 500 /\ byDay[1].repsAtMax = 8

----------------------------------------------------------------------------
(* The whole pass, stated on the sessions of the store                     *)

PassDone == pc = "done" /\ allWorkouts # <<>>

\* the positions <<session, entry, set>> of the sets in the store
InputSets ==
    UNION { UNION { { <<w, e, s>> : s \in 1..Len(allWorkouts[w].exercises[e].sets) } :
                    e \in 1..Len(allWorkouts[w].exercises) } :
            w \in 1..Len(allWorkouts) }

EntryAt(q) == allWorkouts[q[1]].exercises[q[2]]
SetAt(q) == EntryAt(q).sets[q[3]]
DayAt(q) == (allWorkouts[q[1]].start_time + timezoneOffset) \div 1440

\* the title of the entry in the user's language, the plain title when the
\* entry has none in that language, "Unknown Exercise" when it has neither
TitleAt(q) ==
    IF language = "de" /\ EntryAt(q).de_title # <<>> THEN EntryAt(q).de_title
    ELSE IF language = "es" /\ EntryAt(q).es_title # <<>> THEN EntryAt(q).es_title
    ELSE IF EntryAt(q).title # <<>> THEN EntryAt(q).title
    ELSE <<"U","n","k","n","o","w","n"," ","E","x","e","r","c","i","s","e">>

\* the sets of exercise key id, and those of them recorded on day d
SetsOfKey(id) == {q \in InputSets : ExerciseId(TitleAt(q)) = id}
SetsOfKeyOn(id, d) == {q \in SetsOfKey(id) : DayAt(q) = d}

Weights(S) == [q \in S |-> SetAt(q).weight_kg]
Reps(S) == [q \in S |-> SetAt(q).reps]
Work(S) == [q \in S |-> SetAt(q).weight_kg * SetAt(q).reps]
Distances(S) == [q \in S |-> SetAt(q).distance_km]
Durations(S) == [q \in S |-> SetAt(q).duration_seconds]

\* agg is the summary of the sets S: counts, sums and maxima of all of them
Summarizes(agg, S) ==
    /\ agg.setCount = Cardinality(S)
    /\ agg.totalReps = SumOver(S, Reps(S))
    /\ agg.volume = SumOver(S, Work(S))
    /\ agg.totalDistance = SumOver(S, Distances(S))
    /\ agg.totalDuration = SumOver(S, Durations(S))
    /\ agg.maxDistance = MaxOf({SetAt(q).distance_km : q \in S})
    /\ agg.maxDuration = MaxOf({SetAt(q).duration_seconds : q \in S})
    /\ agg.avgVolumePerSet.num * Cardinality(S) = SumOver(S, Work(S)) * agg.avgVolumePerSet.den

\* C11: for every exercise key and day key, the DayAggregate is the summary
\* of all sets of that exercise recorded on that day, over every session of
\* the day: setCount their number, totalReps, volume, totalDistance and
\* totalDuration their sums, maxDistance and maxDuration their maxima,
\* avgVolumePerSet = volume / setCount; strength and cardio fields alike,
\* whatever the kind of the exercise.
C11_DayAggregates ==
    PassDone =>
        \A id \in DOMAIN exercises :
            /\ DOMAIN exercises[id].byDay = {DayAt(q) : q \in SetsOfKey(id)}
            /\ \A d \in DOMAIN exercises[id].byDay :
                   Summarizes(exercises[id].byDay[d], SetsOfKeyOn(id, d))

\* two sessions of one day both hold sets of the exercise, one of them a
\* set with reps and a distance
C11_Witness ==
    /\ PassDone /\ Len(allWorkouts) = 2
    /\ allWorkouts[1].start_time \div 1440 = 1 /\ allWorkouts[2].start_time \div 1440 = 1
    /\ allWorkouts[1].start_time # allWorkouts[2].start_time
    /\ \E id \in DOMAIN exercises :
          /\ 1 \in DOMAIN exercises[id].byDay
          /\ \E q, r \in SetsOfKeyOn(id, 1) : q[1] = 1 /\ r[1] = 2
          /\ exercises[id].exerciseType = "strength"
          /\ exercises[id].byDay[1].setCount >= 3
          /\ exercises[id].byDay[1].totalDistance > 0
          /\ exercises[id].byDay[1].maxDuration > 0

----------------------------------------------------------------------------
(* Order of the sessions *)

\* the sessions of the store in the order p
Permuted(p) == [i \in 1..Len(allWorkouts) |-> allWorkouts[p[i]]]

SessionOrders == Permutations(1..Len(allWorkouts))

\* the entries the grouping loop makes of the sessions ws
Grouped(ws) == GroupWorkouts(EmptyMap, ws, language, timezoneOffset)

\* id -> day key -> DayAggregate, for the sessions ws
DayAggregatesOf(ws) == [id \in DOMAIN Grouped(ws) |-> BuildByDay(Grouped(ws)[id].sets)]

\* C12: the aggregation pass run on the sessions in any other order gives,
\* for every exercise key, the same mapping from day keys to DayAggregates
\* as the one computed.
C12_SessionOrderByDay ==
    PassDone =>
        \A p \in SessionOrders :
            DayAggregatesOf(Permuted(p)) = [id \in DOMAIN exercises |-> exercises[id].byDay]

\* two different sessions of one day hold sets of the same exercise, at the
\* same weight with different reps
C12_Witness ==
    /\ PassDone /\ Len(allWorkouts) = 2
    /\ allWorkouts[1].start_time \div 1440 = allWorkouts[2].start_time \div 1440
    /\ allWorkouts[1].exercises = <<EntryPullUpWeighted>>
    /\ allWorkouts[2].exercises = <<EntryPullUp, EntryPullUpAssisted>>
    /\ language = "en"
    /\ DOMAIN exercises = {ExerciseId(TitlePullUp)}
    /\ exercises[ExerciseId(TitlePullUp)].byDay[1].setCount = 4
    /\ exercises[ExerciseId(TitlePullUp)].byDay[1].maxWeight = 200

\* the positions <<session, entry>> of the exercise entries in the store,
\* and those of exercise key id
InputEntries ==
    UNION { { <<w, e>> : e \in 1..Len(allWorkouts[w].exercises) } : w \in 1..Len(allWorkouts) }
EntriesOfKey(id) == {q \in InputEntries : ExerciseId(TitleAt(q)) = id}

\* every entry of the key carries the same title and the same type tag
UniformKey(id) ==
    \A q, r \in EntriesOfKey(id) :
        TitleAt(q) = TitleAt(r) /\ EntryAt(q).exercise_type = EntryAt(r).exercise_type

\* the records the pass can return for the sessions in the order p
RecordsInOrder(p) ==
    ExercisesChoices(Grouped(Permuted(p)), now, plateauDetectionSessions)

\* what the claim compares of a record
Compared(r) ==
    [exercise_type |-> r.exercise_type, assisted |-> isAssistedExercise(r),
     exerciseType |-> r.exerciseType, topSets |-> r.topSets,
     prDistinct |-> r.prDistinct, strengthInsight |-> r.strengthInsight]

\* C13 as stated: the sessions processed in any order give, for every
\* exercise key, the same type tag and assistance determination, the same
\* kind, the same top-set list, the same deduplicated PR list and the same
\* insight.
C13_SessionOrderRecords ==
    PassDone =>
        \A p \in SessionOrders : \E other \in RecordsInOrder(p) :
            /\ DOMAIN other = DOMAIN exercises
            /\ \A id \in DOMAIN exercises : Compared(other[id]) = Compared(exercises[id])

\* a sequence as a bag of its elements
BagOf(s) == [x \in {s[i] : i \in 1..Len(s)} |-> Cardinality({i \in 1..Len(s) : s[i] = x})]

\* the PR types of a record with the numeric value of the kept entry
PrValues(r) == {<<r.prDistinct[i].type, NumberOrZero(r.prDistinct[i].value)>> :
                    i \in 1..Len(r.prDistinct)}

\* the work of the listed top sets, rank by rank
TopWork(r) == [i \in 1..Len(r.topSets) |-> r.topSets[i].weight * r.topSets[i].reps]

\* C13 as amended: in any order of the sessions every exercise key gets the
\* same sets (in some order), the same kind and day aggregates, and the same
\* PR types with the same greatest values; when all entries of the key carry
\* one title and one type tag it also gets the same type tag, assistance
\* determination and insight, and a non-cardio exercise top sets of the same
\* work rank by rank.
C13_SessionOrderUpToTies ==
    PassDone =>
        \A p \in SessionOrders : \A other \in RecordsInOrder(p) :
            /\ DOMAIN other = DOMAIN exercises
            /\ \A id \in DOMAIN exercises :
                  /\ BagOf(other[id].sets) = BagOf(exercises[id].sets)
                  /\ other[id].exerciseType = exercises[id].exerciseType
                  /\ other[id].byDay = exercises[id].byDay
                  /\ PrValues(other[id]) = PrValues(exercises[id])
                  /\ UniformKey(id) =>
                        /\ other[id].exercise_type = exercises[id].exercise_type
                        /\ isAssistedExercise(other[id]) = isAssistedExercise(exercises[id])
                        /\ other[id].strengthInsight = exercises[id].strengthInsight
                        /\ exercises[id].exerciseType # "cardio" =>
                              TopWork(other[id]) = TopWork(exercises[id])

\* one key, entered in two sessions with two titles and two type tags, and
\* PR entries of one type with different values
C13_Witness ==
    /\ PassDone /\ Len(allWorkouts) = 2 /\ language = "en"
    /\ allWorkouts[1].exercises = <<EntryPullUpWeighted>>
    /\ allWorkouts[2].exercises = <<EntryPullUpAssisted>>
    /\ DOMAIN exercises = {ExerciseId(TitlePullUp)}
    /\ exercises[ExerciseId(TitlePullUp)].exercise_type = "reps_only"
    /\ Len(exercises[ExerciseId(TitlePullUp)].prDistinct) = 1
    /\ exercises[ExerciseId(TitlePullUp)].prDistinct[1].value = Num(200)

----------------------------------------------------------------------------
(* The kind of an exercise *)

\* s and c of a record: the sets the detector counts for each family
CountS(r) == strengthSets(r.sets)
CountC(r) == cardioSets(r.sets)

\* num / den > 0.7, false when den = 0
Above70(num, den) == den > 0 /\ 10 * num > 7 * den

StrengthContributing(s) == s.weight > 0 \/ s.reps > 0
CardioContributing(s) == s.distance_km > 0 \/ s.duration_seconds > 0

\* the kind that s strength-contributing and c cardio-contributing sets give
KindOf(s, c) ==
    IF Above70(s, s + c) THEN "strength"
    ELSE IF Above70(c, s + c) THEN "cardio"
    ELSE IF s > 0 /\ c > 0 THEN "mixed"
    ELSE "unknown"

\* C15: the kind of a record is the one its recorded sets give when every
\* set with weight > 0 or reps > 0 counts as strength-contributing (a set
\* with positive weight and 0 reps too) and every set with distance > 0 or
\* duration > 0 as cardio-contributing.
C15_KindFromRecordedSets ==
    PassDone =>
        \A id \in DOMAIN exercises :
            LET ss == exercises[id].sets
                s == Cardinality({i \in 1..Len(ss) : StrengthContributing(ss[i])})
                c == Cardinality({i \in 1..Len(ss) : CardioContributing(ss[i])})
            IN  exercises[id].exerciseType = KindOf(s, c)

----------------------------------------------------------------------------
(* The bodyweight flag *)

\* a recorded set contributes to one of the families
Contributing(s) == StrengthContributing(s) \/ CardioContributing(s)

\* the records whose flag is decided by their sets, not by the type tag
FlagFromSets == {id \in DOMAIN exercises : exercises[id].exercise_type # "reps_only"}

\* C16 as stated: the set-derived bodyweight flag is true exactly when every
\* contributing set of the exercise has reps > 0 and no set has weight > 0.
C16_RepsOnEverySet ==
    PassDone =>
        \A id \in FlagFromSets :
            LET ss == exercises[id].sets
            IN  exercises[id].isBodyweight <=>
                    /\ \A i \in 1..Len(ss) : Contributing(ss[i]) => ss[i].reps > 0
                    /\ \A i \in 1..Len(ss) : ~(ss[i].weight > 0)

\* C16 as amended: the set-derived bodyweight flag is true exactly when at
\* least one set of the exercise has reps > 0 and no set has weight > 0.
C16_RepsOnSomeSet ==
    PassDone =>
        \A id \in FlagFromSets :
            LET ss == exercises[id].sets
            IN  exercises[id].isBodyweight <=>
                    /\ \E i \in 1..Len(ss) : ss[i].reps > 0
                    /\ \A i \in 1..Len(ss) : ~(ss[i].weight > 0)

\* a set with reps only and a set with a duration only: flagged
C16_Witness ==
    /\ PassDone
    /\ \E id \in FlagFromSets :
          /\ Len(exercises[id].sets) = 2
          /\ exercises[id].sets[1].reps > 0
          /\ exercises[id].sets[2].reps = 0 /\ exercises[id].sets[2].duration_seconds > 0
          /\ \A i \in 1..2 : exercises[id].sets[i].weight = 0
          /\ exercises[id].isBodyweight

----------------------------------------------------------------------------
(* The top sets *)

WorkOf(s) == s.weight * s.reps

\* the list holds sets of the exercise, each no more often than recorded
ListedFrom(top, ss) ==
    \A i \in 1..Len(top) :
        Cardinality({j \in 1..Len(top) : top[j] = top[i]})
            <= Cardinality({j \in 1..Len(ss) : ss[j] = top[i]})

\* a ranks strictly before b by work
BeforeByWork(a, b, assisted) ==
    IF assisted THEN WorkOf(a) < WorkOf(b) ELSE WorkOf(a) > WorkOf(b)

\* C18: a non-cardio exercise with n sets lists exactly min(3, n) of them,
\* the first ones of its sets ordered by work = weight x reps, descending
\* when the exercise is not assisted and ascending when it is: fewer than i
\* sets rank strictly before the i-th listed one.
C18_TopSetsByWork ==
    PassDone =>
        \A id \in DOMAIN exercises :
            LET r == exercises[id]
                n == Len(r.sets)
            IN  r.exerciseType # "cardio" =>
                    /\ Len(r.topSets) = IF n < 3 THEN n ELSE 3
                    /\ ListedFrom(r.topSets, r.sets)
                    /\ \A i \in 1..Len(r.topSets) :
                           Cardinality({j \in 1..n :
                               BeforeByWork(r.sets[j], r.topSets[i], isAssistedExercise(r))}) < i

\* an assisted exercise with four sets, the work 50 recorded before the
\* work 30: 30 is listed first, and a set is left out
C18_Witness ==
    /\ PassDone
    /\ \E id \in DOMAIN exercises :
          LET r == exercises[id]
          IN  /\ isAssistedExercise(r) /\ r.exerciseType # "cardio"
              /\ Len(r.sets) = 4 /\ Len(r.topSets) = 3
              /\ r.sets[1].weight = 500 /\ r.sets[2].weight = 300
              /\ r.sets[3].weight = 500 /\ r.sets[4].weight = 100
              /\ r.topSets[1].weight = 300 /\ WorkOf(r.topSets[2]) = 500

\* a ranks strictly before b: by distance when either set has one, by
\* duration when neither has
BeforeByDistance(a, b) ==
    IF a.distance_km > 0 \/ b.distance_km > 0
    THEN a.distance_km > b.distance_km
    ELSE a.duration_seconds > b.duration_seconds

\* C19: a cardio exercise with n sets lists the first min(3, n) of its sets
\* in the order that compares two sets by distance, descending, whenever
\* either of them has a positive distance, and by duration, descending, only
\* when neither has: fewer than i sets rank strictly before the i-th listed.
C19_TopSetsByDistance ==
    PassDone =>
        \A id \in DOMAIN exercises :
            LET r == exercises[id]
                n == Len(r.sets)
            IN  r.exerciseType = "cardio" =>
                    /\ Len(r.topSets) = IF n < 3 THEN n ELSE 3
                    /\ ListedFrom(r.topSets, r.sets)
                    /\ \A i \in 1..Len(r.topSets) :
                           Cardinality({j \in 1..n :
                               BeforeByDistance(r.sets[j], r.topSets[i])}) < i

----------------------------------------------------------------------------
(* The distinct PRs *)

\* the collected PR entries of a record that have the type
PrsOfType(r, type) == {i \in 1..Len(r.prs) : r.prs[i].type = type}

\* C20: prDistinct holds exactly one entry per distinct type among the
\* collected PR entries, a collected entry of that type, and its numeric
\* value (0 for a value that is not a number) is the greatest among the
\* collected entries of the type, in whatever sequence they were collected.
C20_OnePrPerType ==
    PassDone =>
        \A id \in DOMAIN exercises :
            LET r == exercises[id]
            IN  /\ \A i \in 1..Len(r.prs) :
                       Cardinality({k \in 1..Len(r.prDistinct) :
                                        r.prDistinct[k].type = r.prs[i].type}) = 1
                /\ \A k \in 1..Len(r.prDistinct) :
                       /\ \E i \in PrsOfType(r, r.prDistinct[k].type) : r.prs[i] = r.prDistinct[k]
                       /\ \A i \in PrsOfType(r, r.prDistinct[k].type) :
                              NumberOrZero(r.prs[i].value) <= NumberOrZero(r.prDistinct[k].value)

\* the values 100, 120, 90 of type "1RM" collected in this sequence
C20_Witness ==
    /\ PassDone
    /\ \E id \in DOMAIN exercises :
          LET r == exercises[id]
          IN  /\ Len(r.prs) = 3
              /\ \A i \in 1..3 : r.prs[i].type = "1RM"
              /\ r.prs[1].value = Num(100) /\ r.prs[2].value = Num(120)
              /\ r.prs[3].value = Num(90)
              /\ Len(r.prDistinct) = 1 /\ r.prDistinct[1].value = Num(120)

----------------------------------------------------------------------------
(* One record per title key *)

RECURSIVE WordsOf(_, _)
\* the maximal runs of characters a-z0-9 of str, cur being the run so far
WordsOf(str, cur) ==
    IF str = <<>> THEN (IF cur = <<>> THEN <<>> ELSE <<cur>>)
    ELSE IF IsAlnum(str[1]) THEN WordsOf(Tail(str), Append(cur, str[1]))
    ELSE (IF cur = <<>> THEN <<>> ELSE <<cur>>) \o WordsOf(Tail(str), <<>>)

RECURSIVE JoinDash(_)
JoinDash(ws) ==
    IF ws = <<>> THEN <<>>
    ELSE IF Len(ws) = 1 THEN ws[1]
    ELSE ws[1] \o <<"-">> \o JoinDash(Tail(ws))

\* the normalized title key: the lowercased title with every run of other
\* characters turned into one "-" and none at either end
KeyOf(t) == JoinDash(WordsOf(ToLowerCase(t), <<>>))

\* the set at position q as the pass records it
Recorded(q) ==
    [day |-> DayAt(q), weight |-> SetAt(q).weight_kg, reps |-> SetAt(q).reps,
     distance_km |-> SetAt(q).distance_km, duration_seconds |-> SetAt(q).duration_seconds]

-----------------------------------------------------------------------------
(* The day key                                                             *)

\* the local wall-clock time at which session i started, in minutes since the
\* local midnight of day 0
WallClockAt(i) == allWorkouts[i].start_time + timezoneOffset

\* the local calendar days on which the sessions started
LocalDays == { WallClockAt(i) \div 1440 : i \in 1..Len(allWorkouts) }

\* C21: the day key of a session is the local calendar date of its start, not
\* the UTC date: in every zone, the days recorded for an exercise are the
\* local calendar days of its sessions, so two sessions of one local day
\* share a key and sessions at 23:59 and at 00:01 of the next local day do not.
C21_LocalDayKey ==
    PassDone =>
        \A id \in DOMAIN exercises : DOMAIN exercises[id].byDay = LocalDays

\* sessions at 23:59 and at 00:01 of the next local day fall on one UTC date
\* in a zone east of UTC and are recorded under two days
C21_Witness ==
    /\ pc = "done" /\ Len(allWorkouts) = 2
    /\ timezoneOffset = 330
    /\ WallClockAt(1) = 2 * 1440 - 1 /\ WallClockAt(2) = 2 * 1440 + 1
    /\ allWorkouts[1].start_time \div 1440 = allWorkouts[2].start_time \div 1440
    /\ \E id \in DOMAIN exercises : Cardinality(DOMAIN exercises[id].byDay) = 2

-----------------------------------------------------------------------------
(* Malformed input                                                         *)

\* a set with 0 in place of every numeric field that is absent or not numeric
CleanSet(s) ==
    IF IsAbsent(s) THEN s
    ELSE [s EXCEPT !.weight_kg = OrZero(@), !.reps = OrZero(@),
                   !.distance_km = OrZero(@), !.duration_seconds = OrZero(@)]

CleanEntry(ex) ==
    [ex EXCEPT !.title = IF @ = <<>> THEN UnknownExercise ELSE @,
               !.sets = [i \in 1..Len(ex.sets) |-> CleanSet(ex.sets[i])]]

\* the snapshot with 0 for every missing number, "Unknown Exercise" for
\* every missing title and the epoch for every missing start time
Cleaned(ws) ==
    [i \in 1..Len(ws) |->
        [start_time |-> IF ws[i].start_time = Undefined THEN 0 ELSE ws[i].start_time,
         exercises |-> [j \in 1..Len(ws[i].exercises) |-> CleanEntry(ws[i].exercises[j])]]]

\* the metrics the pass derives for a record, the set lists apart
MetricsOf(r) ==
    [title |-> r.title, exerciseType |-> r.exerciseType, isBodyweight |-> r.isBodyweight,
     byDay |-> r.byDay, totalSessions |-> r.totalSessions,
     lastTrainedDate |-> r.lastTrainedDate, strengthInsight |-> r.strengthInsight]

\* a list of sets with 0 for every number that is missing
CoercedSets(ss) == [i \in 1..Len(ss) |-> Coerced(ss[i])]

\* the records are those of the cleaned snapshot in every derived metric
SameAsCleaned ==
    LET map == Grouped(Cleaned(allWorkouts))
        clean == ExercisesChoices(map, now, plateauDetectionSessions)
    IN  /\ DOMAIN exercises = DOMAIN map
        /\ \A id \in DOMAIN exercises :
              /\ \A c \in clean : MetricsOf(exercises[id]) = MetricsOf(c[id])
              /\ CoercedSets(exercises[id].topSets) \in TopSetsOf(map[id])

\* C22: whatever the snapshot holds (sets with absent or non-numeric weight,
\* reps, distance or duration, sets that are absent, exercises without title,
\* sessions without start time), the pass completes without raising, and
\* every derived metric is the one of the snapshot with 0 for the missing
\* numbers, "Unknown Exercise" for the missing titles and the epoch for the
\* missing start times.
C22_MalformedTolerated ==
    /\ pc # "threw"
    /\ PassDone => SameAsCleaned

\* when the pass completes, the metrics are those of the cleaned snapshot
MalformedCountsAsZero == PassDone => SameAsCleaned

NumbersMissingDone ==
    /\ pc = "done" /\ Len(allWorkouts) = 2
    /\ allWorkouts[1].start_time = Undefined
    /\ allWorkouts[1].exercises[1].title = <<>>
    /\ allWorkouts[1].exercises[1].sets = <<PlainSet(NaN, 8, 0, 0), PlainSet(1000, NaN, 0, 0)>>
    /\ DOMAIN exercises = {ExerciseId(UnknownExercise)}

-----------------------------------------------------------------------------
(* The order of the tests of the strength branch                           *)

\* changes around the thresholds of the two tests, in tenths of a kg and in reps
WeightChangeGrid == {-25, -20, -6, -5, 0, 5, 6, 20, 25}
RepsChangeGrid == {-3, -2, 0, 2, 3}

\* the outcome of the comparison were the losing test made before the gaining one
LosingFirst ==
    IF IsLosing(EffChange, RepsChange, HalfDen) THEN "losing"
    ELSE IF IsGaining(EffChange, RepsChange, HalfDen) THEN "gaining"
    ELSE "maintaining"

\* C24: in the strength branch the gaining and the losing condition never
\* both hold of the same (effectiveWeightChange, repsChange), be it the pair
\* of the window or any pair around the thresholds, so the outcome is the
\* same when the losing condition is tested first.
C24_GainLoseExclusive ==
    (PastChecks /\ NonCardio /\ Outcome # "plateau") =>
        /\ ~(IsGaining(EffChange, RepsChange, HalfDen) /\ IsLosing(EffChange, RepsChange, HalfDen))
        /\ \A e \in WeightChangeGrid : \A r \in RepsChangeGrid :
               ~(IsGaining(e, r, 1) /\ IsLosing(e, r, 1))
        /\ Outcome = LosingFirst

\* N = 2: the weight rises by 2.5 while the reps drop by 3: gaining, and the
\* reps drop is no loss because the weight is not stable
C24_Witness ==
    /\ Done /\ plateauDetectionSessions = 2 /\ Days = 1..2 /\ ~Assisted
    /\ byDay[1].maxWeight = 1000 /\ byDay[1].repsAtMax = 11
    /\ byDay[2].maxWeight = 1025 /\ byDay[2].repsAtMax = 8
    /\ RepsChange < 0 - 2 * HalfDen
    /\ Outcome = "gaining"

\* C25: in the strength branch with N >= 2, whenever the window is a plateau
\* (weight range at most 0.5 and reps range at most 1) neither the gaining
\* nor the losing condition holds of the window's halves: the plateau test
\* hides no gaining or losing outcome.
C25_PlateauHidesNothing ==
    (PastChecks /\ NonCardio /\ plateauDetectionSessions >= 2 /\ Outcome = "plateau") =>
        /\ HalfDen > 0
        /\ ~IsGaining(EffChange, RepsChange, HalfDen)
        /\ ~IsLosing(EffChange, RepsChange, HalfDen)

\* N = 2, the weight 0.5 higher on the second day at the same reps
C25_Witness ==
    /\ Done /\ plateauDetectionSessions = 2 /\ Days = 1..2
    /\ byDay[1].maxWeight = 1000 /\ byDay[2].maxWeight = 1005
    /\ byDay[1].repsAtMax = 8 /\ byDay[2].repsAtMax = 8
    /\ WeightChange = 5
    /\ Outcome = "plateau"

\* the series the comparison splits: one value per day-bucket of the window
\* in the strength branch, the chosen metric's positive values in the cardio one
ComparedSeries == IF Cardio THEN MetricSeries ELSE SortedSeq(Window)

\* C26: whenever analyzeStrengthProgress reaches the comparison of the
\* halves, in the strength or in the cardio branch, the first and the second
\* half are both non-empty, so no half mean is a division by zero.
C26_HalvesNonEmpty ==
    (PastChecks /\ Outcome \notin {"plateau", "null"}) =>
        /\ Len(SliceTo(ComparedSeries, plateauDetectionSessions \div 2)) > 0
        /\ Len(SliceFrom(ComparedSeries, plateauDetectionSessions \div 2)) > 0

-----------------------------------------------------------------------------
(* The store                                                               *)

\* call c is made in this step
Made(c) == calls[c].pc = "idle" /\ calls'[c].pc # "idle"

\* the store holds at least one workout, fetched at most five minutes ago
CacheFresh ==
    /\ Len(store.workouts) >= 1
    /\ store.workoutsLastFetched # NeverFetched
    /\ clock - store.workoutsLastFetched <= 5

\* C23: a fetchWorkouts call without force sends no request and returns the
\* cached list, leaving the store as it is, when the store holds at least
\* one workout and the last successful fetch ended at most five minutes
\* ago; it sends a request when the cache is empty, when
\* workoutsLastFetched is null or more than five minutes old, or when force
\* is true.
C23_CacheWindow ==
    [][\A c \in 1..MaxCalls :
          Made(c) =>
              IF CacheFresh /\ ~calls'[c].force
              THEN /\ calls'[c].pc = "returned"
                   /\ calls'[c].requests = <<>>
                   /\ calls'[c].result = store.workouts
                   /\ store' = store
              ELSE calls'[c].pc \in {"awaitUser", "awaitBatch"}]_vars

\* a call made exactly five minutes after the fetch returned the cached list
C23_Witness ==
    \E c \in 1..MaxCalls :
        /\ calls[c].pc = "returned" /\ ~calls[c].force
        /\ calls[c].requests = <<>>
        /\ calls[c].result # <<>> /\ calls[c].result = store.workouts
        /\ clock - store.workoutsLastFetched = 5

\* no element occurs twice in the sequence
Distinct(s) == \A i, j \in 1..Len(s) : i # j => s[i] # s[j]

\* C27: in one run of fetchWorkouts the requests address pairwise distinct
\* pages (distinct offsets, or distinct page numbers when an API key is
\* stored), so no workout is appended twice; every request but the last was
\* answered with a non-empty batch, and there are at most 2000 of them.
C27_DistinctPages ==
    \A c \in 1..MaxCalls :
        /\ Distinct(calls[c].requests)
        /\ Distinct(calls[c].allWorkouts)
        /\ Len(calls[c].requests) <= 2000
        /\ \A i \in 1..(Len(calls[c].requests) - 1) :
               Batch(calls[c].requests[i], backend) # <<>>

\* a fetch is under way: a request of the call is awaiting its answer
InFlight(c) == calls[c].pc \in {"awaitUser", "awaitBatch"}

\* C28: however the fetchWorkouts calls interleave, isLoadingWorkouts is true
\* whenever at least one call is between its first request and its
\* completion; it is false only when no fetch is under way.
C28_LoadingWhileInFlight ==
    (\E c \in 1..MaxCalls : InFlight(c)) => store.isLoadingWorkouts

\* C29: once logout() has been called, workouts is empty and
\* workoutsLastFetched is null until a fetchWorkouts call made after the
\* logout completes: a fetch that was under way does not fill the cache.
C29_EmptyAfterLogout ==
    loggedOut =>
        \/ store.workouts = <<>> /\ store.workoutsLastFetched = NeverFetched
        \/ \E c \in 1..MaxCalls : calls[c].pc = "done" /\ calls[c].afterLogout

-----------------------------------------------------------------------------
(* The navigation guard                                                    *)

\* the navigation under way ends in this step: its route is entered
Settles == router.to # "none" /\ router'.to = "none"

\* C30: for every target path and token state the guard settles after at
\* most one redirect on a route consistent with the token: a route that
\* requires authentication is entered only with a token, the login route
\* only without one, and a path no route has ends on /dashboard with a token
\* and on /login without.
C30_GuardSettles ==
    [][Settles =>
          LET entered == router'.currentRoute
              token == localStorage.hevy_access_token
          IN  /\ router'.redirects <= 1
              /\ Match(entered).requiresAuth => token
              /\ Match(entered).name = "Login" => ~token
              /\ Match(router.target).name = "NotFoundRedirect" =>
                     entered = (IF token THEN "/dashboard" ELSE "/login")]_vars

====
